---- MODULE Spec2Model ----
(***************************************************************************)
(* Verification models of the executable examples of the documentation     *)
(* site (Next.js proxy examples, the Express/Next.js authentication        *)
(* examples, and the React hook examples).  Each example is a state        *)
(* machine of its own over its own variables; the examples share one       *)
(* initial state (every example freshly constructed) and each has its own  *)
(* next-state relation and specification.                                  *)
(***************************************************************************)
EXTENDS Integers, Sequences, FiniteSets, Bags, TLC

VARIABLES
  \* ---- rate limiting proxy (src/unnamed/part_002, "4. 限流") ----
  requestCounts,   \* the module-level Map: ip -> [count, resetTime]
  now,             \* the value Date.now() returns (ms)
  rateResponse,    \* what proxy returned for the last request
  admitLog,        \* history: per key, the bag of times of the admitted
                   \* requests that are less than windowMs old
  ticks,           \* history: how often the clock has advanced
  anonSent,        \* history: requests received without request.ip
  \* ---- authentication proxy (src/unnamed/part_002, "3. 鉴权") ----
  authRequest,     \* the request in flight: pathname and 'token' cookie
  authStage,       \* where the request is: idle, received, proxied,
                   \* handler (the route handler runs), redirected
  authProxyResult, \* what proxy returned: none, next, redirect:/login
  \* ---- refreshAccessToken middleware (src/unnamed/part_001) ----
  rfRequest,       \* req: the Authorization header and the cookies
  rfTime,          \* the time (s) at which the request is handled
  rfStage,         \* idle, received, done
  rfRes,           \* res: statusCode, whether a body was sent, the body's
                   \* error, and the X-New-Access-Token header
  rfUserId,        \* req.userId as the middleware leaves it
  rfNextCalled,    \* whether the middleware called next()
  rfCookieRead,    \* history: whether req.cookies.refreshToken was read
  \* ---- login and protected route handlers (src/unnamed/part_001) ----
  sessions,        \* the session store: sessionId -> user
  issuedTokens,    \* the tokens the login route has returned
  routeTime,       \* the current time (s)
  routeTicks,      \* history: how often the time has advanced
  routeRequest,    \* the GET request in flight: cookies, Authorization
  routeStage,      \* idle, received, done
  routeResponse,   \* the GET handler's response: status, error, data, user
  loginResponse,   \* the login handler's response: status, token
  \* ---- useState Counter (src/guides/react/hooks/useReducer.md) ----
  count,           \* the state as of the last render (what handlers close over)
  countQueue,      \* the updates setCount has queued since the last render
  counterEvent,    \* history: the handler of the last event, "none" at first
  countAtEvent,    \* history: count when that handler started
  \* ---- useLocalStorage (src/unnamed/part_007) ----
  localStorage,    \* window.localStorage: key -> text
  lsHook,          \* the mounted hook's arguments [key, initialValue];
                   \* {} while no component using the hook is mounted
  storedValue,     \* the hook's state as of the last render
  lsQueue,         \* the updates setStoredValue has queued since then
  lsHistory,       \* history: the entry found at mount, the value the hook
                   \* first returned, the last setValue call and its outcome,
                   \* the function calls of the event under way
  \* ---- getCachedData (src/guides/react/use-api.md) ----
  cache,           \* the module-level Map: key -> promise
  promises,        \* the promises the fetchers have returned, by number:
                   \* the fetcher, the key it was called for, the status
  cacheReturned,   \* what the last getCachedData call returned, {} at first
  cacheCalls,      \* history: the number of getCachedData calls so far
  firstReturned,   \* history: key -> what the first call for the key returned
  \* ---- useDebounce (src/unnamed/part_007) ----
  dbMounted,       \* whether a component using the hook is mounted
  dbValue,         \* the value argument of the last render
  dbDelay,         \* the delay argument of the last render (ms)
  debouncedValue,  \* the hook's state, which it returns
  dbTimers,        \* the pending timers: the value the callback closes over,
                   \* the delay, the time run so far, and as history what
                   \* started the timer and whether value and delay are
                   \* unchanged since
  dbSetBy,         \* history: what set debouncedValue last: useState, or the
                   \* timer that fired and the hook's arguments then
  \* ---- render counters (useRef.md Counter, useCallback-useMemo.md PerformanceDemo) ----
  rcMounted,       \* whether Counter is mounted
  rcCount,         \* Counter: the state count
  renderCountRef,  \* Counter: renderCount.current
  rcShown,         \* Counter: the number shown after the label of the render
                   \* count
  rcRenders,       \* history: how often Counter has rendered since it was
                   \* mounted
  pdMounted,       \* whether PerformanceDemo is mounted
  pdA,             \* PerformanceDemo: the state a
  pdB,             \* PerformanceDemo: the state b
  pdRenderCount,   \* PerformanceDemo: the state renderCount
  pdShown,         \* PerformanceDemo: the number shown after the label of the
                   \* render count
  pdRenders,       \* history: how often PerformanceDemo has rendered since it
                   \* was mounted
  \* ---- the documentation site (src/.vitepress/config.mts and the pages) ----
  siteLocation,    \* the route the visitor is at, as the segments between the
                   \* slashes
  sitePage,        \* what is shown there: none (no visit yet), page, notfound
  siteSidebar,     \* the key of the sidebar shown, {} when none is shown
  siteFollowed,    \* history: the link followed last, where it was (nav, or
                   \* the key of a sidebar) and on which page
  \* ---- formReducer and Form (src/guides/react/hooks/useReducer.md) ----
  formMounted,     \* whether Form is mounted
  formScope,       \* what the name initialState is bound to where formReducer
                   \* is defined: {} when to nothing, else {the object}
  form,            \* the reducer state of Form
  formThrown,      \* whether the last dispatch ended with formReducer
                   \* throwing
  formLast,        \* history: the last action dispatched and the state before
                   \* it
  \* ---- usePrevious (src/guides/react/hooks/useRef.md) ----
  upPhase,         \* unmounted; rendered: the component has rendered and its
                   \* effects are yet to run; idle
  upRenders,       \* how often the component has rendered since it was
                   \* mounted
  upValue,         \* the value passed by the last render
  upDeps,          \* the dependencies [value] of the render before the last,
                   \* {} when there was none
  upRef,           \* ref.current: {} for undefined, else {the value}
  upReturned,      \* what usePrevious returned to the last render, likewise
  \* ---- DataProcessor (src/guides/react/hooks/useRef.md) ----
  dpData,          \* the state data: {} for null, else {the result}
  cacheRef,        \* cacheRef.current, the Map: item -> result
  processingRef,   \* processingRef.current
  dpTimers,        \* the pending timers: the item the callback closes over
                   \* and the time run so far
  dpLastCall,      \* history: the last processItem call: its item, what it
                   \* returned, and whether it was an odd or an even call
  \* ---- Timer (src/guides/react/hooks/useRef.md) ----
  tmCount,         \* the state count
  intervalRef,     \* intervalRef.current: {} for null, else {the interval id}
  tmIntervals,     \* the ids of the active intervals
  tmCreated,       \* how many intervals setInterval has created
  tmLastClick,     \* history: the button clicked last (none, start, stop) and
                   \* count then
  \* ---- SearchResults (src/guides/react/hooks/useCallback-useMemo.md) ----
  srMounted,       \* SearchResults is mounted
  srQuery,         \* the prop query of the last render
  abortControllerRef,\* abortControllerRef.current: {} for null, else {the
                   \* request id}
  srRequests,      \* the requests issued: id -> [query, aborted, status]
  srErrors,        \* what console.error has reported: [id, name, aborted]
  \* ---- createResource (src/guides/react/use-api.md) ----
  resourceCache,   \* the Map cache of fetchUser: key -> entry
  resourcePromises,\* the promises made by a read, by number: [key, state]
  resourceFetched, \* history: key -> how many times fetcher(key) was invoked
  resourceRead     \* history: the last read, {} at first, else {[key, before,
                   \* kind, data, error, promise]}

rateVars == <<requestCounts, now, rateResponse, admitLog, ticks, anonSent>>
authVars == <<authRequest, authStage, authProxyResult>>
refreshVars ==
  <<rfRequest, rfTime, rfStage, rfRes, rfUserId, rfNextCalled, rfCookieRead>>
routeVars ==
  <<sessions, issuedTokens, routeTime, routeTicks, routeRequest, routeStage,
    routeResponse, loginResponse>>
counterVars == <<count, countQueue, counterEvent, countAtEvent>>
lsVars == <<localStorage, lsHook, storedValue, lsQueue, lsHistory>>
cacheVars == <<cache, promises, cacheReturned, cacheCalls, firstReturned>>
debounceVars ==
  <<dbMounted, dbValue, dbDelay, debouncedValue, dbTimers, dbSetBy>>
renderVars ==
  <<rcMounted, rcCount, renderCountRef, rcShown, rcRenders, pdMounted, pdA,
    pdB, pdRenderCount, pdShown, pdRenders>>
siteVars ==
  <<siteLocation, sitePage, siteSidebar, siteFollowed>>
formVars ==
  <<formMounted, formScope, form, formThrown, formLast>>
previousVars ==
  <<upPhase, upRenders, upValue, upDeps, upRef, upReturned>>
processorVars ==
  <<dpData, cacheRef, processingRef, dpTimers, dpLastCall>>
timerVars ==
  <<tmCount, intervalRef, tmIntervals, tmCreated, tmLastClick>>
searchVars ==
  <<srMounted, srQuery, abortControllerRef, srRequests, srErrors>>
resourceVars ==
  <<resourceCache, resourcePromises, resourceFetched, resourceRead>>

vars ==
  <<rateVars, authVars, refreshVars, routeVars, counterVars, lsVars,
    cacheVars, debounceVars, renderVars, siteVars, formVars, previousVars,
    processorVars, timerVars, searchVars, resourceVars>>

KeepExceptRate ==
  UNCHANGED <<authVars, refreshVars, routeVars, counterVars, lsVars,
              cacheVars, debounceVars, renderVars, siteVars, formVars,
              previousVars, processorVars, timerVars, searchVars, resourceVars>>
KeepExceptAuth ==
  UNCHANGED <<rateVars, refreshVars, routeVars, counterVars, lsVars,
              cacheVars, debounceVars, renderVars, siteVars, formVars,
              previousVars, processorVars, timerVars, searchVars, resourceVars>>
KeepExceptRefresh ==
  UNCHANGED <<rateVars, authVars, routeVars, counterVars, lsVars, cacheVars,
              debounceVars, renderVars, siteVars, formVars, previousVars,
              processorVars, timerVars, searchVars, resourceVars>>
KeepExceptRoute ==
  UNCHANGED <<rateVars, authVars, refreshVars, counterVars, lsVars, cacheVars,
              debounceVars, renderVars, siteVars, formVars, previousVars,
              processorVars, timerVars, searchVars, resourceVars>>
KeepExceptCounter ==
  UNCHANGED <<rateVars, authVars, refreshVars, routeVars, lsVars, cacheVars,
              debounceVars, renderVars, siteVars, formVars, previousVars,
              processorVars, timerVars, searchVars, resourceVars>>
KeepExceptLs ==
  UNCHANGED <<rateVars, authVars, refreshVars, routeVars, counterVars,
              cacheVars, debounceVars, renderVars, siteVars, formVars,
              previousVars, processorVars, timerVars, searchVars, resourceVars>>
KeepExceptCache ==
  UNCHANGED <<rateVars, authVars, refreshVars, routeVars, counterVars, lsVars,
              debounceVars, renderVars, siteVars, formVars, previousVars,
              processorVars, timerVars, searchVars, resourceVars>>
KeepExceptDebounce ==
  UNCHANGED <<rateVars, authVars, refreshVars, routeVars, counterVars, lsVars,
              cacheVars, renderVars, siteVars, formVars, previousVars,
              processorVars, timerVars, searchVars, resourceVars>>
KeepExceptRender ==
  UNCHANGED <<rateVars, authVars, refreshVars, routeVars, counterVars, lsVars,
              cacheVars, debounceVars, siteVars, formVars, previousVars,
              processorVars, timerVars, searchVars, resourceVars>>
KeepExceptSite ==
  UNCHANGED <<rateVars, authVars, refreshVars, routeVars, counterVars, lsVars,
              cacheVars, debounceVars, renderVars, formVars, previousVars,
              processorVars, timerVars, searchVars, resourceVars>>
KeepExceptForm ==
  UNCHANGED <<rateVars, authVars, refreshVars, routeVars, counterVars, lsVars,
              cacheVars, debounceVars, renderVars, siteVars, previousVars,
              processorVars, timerVars, searchVars, resourceVars>>
KeepExceptPrevious ==
  UNCHANGED <<rateVars, authVars, refreshVars, routeVars, counterVars, lsVars,
              cacheVars, debounceVars, renderVars, siteVars, formVars,
              processorVars, timerVars, searchVars, resourceVars>>
KeepExceptProcessor ==
  UNCHANGED <<rateVars, authVars, refreshVars, routeVars, counterVars, lsVars,
              cacheVars, debounceVars, renderVars, siteVars, formVars,
              previousVars, timerVars, searchVars, resourceVars>>
KeepExceptTimer ==
  UNCHANGED <<rateVars, authVars, refreshVars, routeVars, counterVars, lsVars,
              cacheVars, debounceVars, renderVars, siteVars, formVars,
              previousVars, processorVars, searchVars, resourceVars>>
KeepExceptSearch ==
  UNCHANGED <<rateVars, authVars, refreshVars, routeVars, counterVars, lsVars,
              cacheVars, debounceVars, renderVars, siteVars, formVars,
              previousVars, processorVars, timerVars, resourceVars>>
KeepExceptResource ==
  UNCHANGED <<rateVars, authVars, refreshVars, routeVars, counterVars, lsVars,
              cacheVars, debounceVars, renderVars, siteVars, formVars,
              previousVars, processorVars, timerVars, searchVars>>

\* JavaScript's undefined
Undefined == "undefined"

(***************************************************************************)
(* 1. The rate limiting proxy                                              *)
(***************************************************************************)

\* const limit = 100
limit == 100

\* const windowMs = 60 * 1000
windowMs == 60 * 1000

\* How often the clock advances between requests in the model.
MaxTicks == 2

\* How many requests arrive without request.ip (they share the key 'unknown').
MaxAnonymous == 2

\* The values request.ip takes: a client address, or none.
RequestIps == {"203.0.113.7", Undefined}

\* The steps by which Date.now() advances between two requests.
ClockSteps == {1, windowMs}

\* const ip = request.ip || 'unknown'
ClientKey(requestIp) == IF requestIp = Undefined THEN "unknown" ELSE requestIp

RateKeys == {ClientKey(i) : i \in RequestIps}

\* requestCounts.set(ip, record)
MapSet(map, key, value) ==
  [k \in (DOMAIN map) \cup {key} |-> IF k = key THEN value ELSE map[k]]

\* The admitted requests of the log that lie in the interval (t - windowMs, t].
WithinWindow(log, t) ==
  [x \in {y \in DOMAIN log : y > t - windowMs} |-> log[x]]

RateInit ==
  /\ requestCounts = <<>>
  /\ now = 0
  /\ rateResponse = [ip |-> Undefined, status |-> "none"]
  /\ admitLog = [k \in RateKeys |-> EmptyBag]
  /\ ticks = 0
  /\ anonSent = 0

\* export async function proxy(request) of the rate limiting example
proxyRateLimit(requestIp) ==
  LET ip == ClientKey(requestIp)
      admit == /\ rateResponse' = [ip |-> ip, status |-> "next"]
               /\ admitLog' = [admitLog EXCEPT ![ip] = @ (+) SetToBag({now})]
  IN /\ requestIp = Undefined => anonSent < MaxAnonymous
     /\ anonSent' = IF requestIp = Undefined THEN anonSent + 1 ELSE anonSent
     /\ IF ip \notin DOMAIN requestCounts \/ now > requestCounts[ip].resetTime
        THEN \* reset the count
             /\ requestCounts' =
                  MapSet(requestCounts, ip, [count |-> 1, resetTime |-> now + windowMs])
             /\ admit
        ELSE IF requestCounts[ip].count >= limit
        THEN \* 429 Too Many Requests
             /\ rateResponse' = [ip |-> ip, status |-> "429"]
             /\ UNCHANGED <<requestCounts, admitLog>>
        ELSE \* record.count++
             /\ requestCounts' = [requestCounts EXCEPT ![ip].count = @ + 1]
             /\ admit
     /\ UNCHANGED <<now, ticks>>
     /\ KeepExceptRate

\* Time passes between two requests: Date.now() grows.
RateTick ==
  /\ ticks < MaxTicks
  /\ \E d \in ClockSteps :
       /\ now' = now + d
       /\ admitLog' = [k \in RateKeys |-> WithinWindow(admitLog[k], now + d)]
  /\ ticks' = ticks + 1
  /\ UNCHANGED <<requestCounts, rateResponse, anonSent>>
  /\ KeepExceptRate

NextRate ==
  \/ \E i \in RequestIps : proxyRateLimit(i)
  \/ RateTick

(***************************************************************************)
(* 2. The authentication proxy                                             *)
(***************************************************************************)

\* Strings the code compares by prefix are sequences of characters.
Slash == <<"/">>
Dashboard == <<"d", "a", "s", "h", "b", "o", "a", "r", "d">>
Dashboards == <<"d", "a", "s", "h", "b", "o", "a", "r", "d", "s">>
Api == <<"a", "p", "i">>
Protected == <<"p", "r", "o", "t", "e", "c", "t", "e", "d">>
Login == <<"l", "o", "g", "i", "n">>
Settings == <<"s", "e", "t", "t", "i", "n", "g", "s">>

\* The longest path, in segments, of a request of the model.
MaxPathLen == 2

PathSegments == {Dashboard, Dashboards, Api, Protected, Login, Settings}

\* The paths of the requests: up to MaxPathLen segments.
RequestPaths == UNION {[1..n -> PathSegments] : n \in 0..MaxPathLen}

\* request.nextUrl.pathname of a path: "/" for the root, else "/seg/seg..."
RECURSIVE JoinSegments(_)
JoinSegments(segs) ==
  IF segs = <<>> THEN <<>>
  ELSE Slash \o Head(segs) \o JoinSegments(Tail(segs))

Pathname(segs) == IF segs = <<>> THEN Slash ELSE JoinSegments(segs)

\* String.prototype.startsWith
StartsWith(str, prefix) ==
  /\ Len(str) >= Len(prefix)
  /\ SubSeq(str, 1, Len(prefix)) = prefix

\* A matcher source '<prefix>/:path*': the prefix itself, or the prefix
\* followed by any number of further segments.
MatchesSource(pathname, prefix) ==
  \/ pathname = prefix
  \/ StartsWith(pathname, prefix \o Slash)

\* config.matcher: ['/dashboard/:path*', '/api/protected/:path*']
AuthMatcherSources == {Slash \o Dashboard, Slash \o Api \o Slash \o Protected}

AuthMatcher(pathname) ==
  \E prefix \in AuthMatcherSources : MatchesSource(pathname, prefix)

\* The cookies of a request, name -> value: no 'token' cookie, or one with
\* an empty or a non-empty value.
NoCookies == [n \in {} |-> ""]
AuthCookieJars == {NoCookies, [token |-> ""], [token |-> "abc123"]}

\* request.cookies.get(name): the cookie object, or nothing (undefined);
\* the result is the set of the objects found, {} for undefined.
CookiesGet(jar, name) ==
  IF name \in DOMAIN jar THEN {[name |-> name, value |-> jar[name]]} ELSE {}

AuthInit ==
  /\ authRequest = [pathname |-> Slash, cookies |-> NoCookies]
  /\ authStage = "idle"
  /\ authProxyResult = "none"

\* A request arrives.
AuthReceive ==
  /\ authStage \in {"idle", "handler", "redirected"}
  /\ \E p \in RequestPaths, c \in AuthCookieJars :
       authRequest' = [pathname |-> Pathname(p), cookies |-> c]
  /\ authStage' = "received"
  /\ authProxyResult' = "none"
  /\ KeepExceptAuth

\* export async function proxy(request) of the authentication example,
\* which Next.js calls for the requests config.matcher matches
proxyAuth ==
  /\ authStage = "received"
  /\ AuthMatcher(authRequest.pathname)
  /\ LET token == CookiesGet(authRequest.cookies, "token")
     IN authProxyResult' =
          IF /\ StartsWith(authRequest.pathname, Slash \o Dashboard)
             /\ token = {}
          THEN "redirect:/login"
          ELSE "next"
  /\ authStage' = "proxied"
  /\ UNCHANGED authRequest
  /\ KeepExceptAuth

\* NextResponse.redirect: the client is redirected, no handler runs.
AuthRedirect ==
  /\ authStage = "proxied"
  /\ authProxyResult = "redirect:/login"
  /\ authStage' = "redirected"
  /\ UNCHANGED <<authRequest, authProxyResult>>
  /\ KeepExceptAuth

\* NextResponse.next, or no match of config.matcher: the route handler runs.
AuthRouteHandler ==
  /\ \/ authStage = "proxied" /\ authProxyResult = "next"
     \/ authStage = "received" /\ ~AuthMatcher(authRequest.pathname)
  /\ authStage' = "handler"
  /\ UNCHANGED <<authRequest, authProxyResult>>
  /\ KeepExceptAuth

NextAuth ==
  \/ AuthReceive
  \/ proxyAuth
  \/ AuthRedirect
  \/ AuthRouteHandler

(***************************************************************************)
(* 3. JSON Web Tokens (the jsonwebtoken calls of the examples)             *)
(***************************************************************************)

\* A value that may be undefined is the set of the values it has: {} for
\* undefined, {v} for v.

\* jwt.sign(payload, secret, {expiresIn}): a token carries its payload and
\* expiry, and the secret its signature was made with.
JwtSign(userId, secret, exp) ==
  [kind |-> "jwt", userId |-> userId, secret |-> secret, exp |-> exp]

\* A string that is no JWT.
Garbage == [kind |-> "garbage"]

\* jwt.verify(token, secret) at time t: the decoded payload, or the name of
\* the error thrown.  The signature is checked before the expiry.
JwtVerify(token, secret, t) ==
  IF token = {} THEN [ok |-> FALSE, name |-> "JsonWebTokenError"]
  ELSE LET tok == CHOOSE x \in token : TRUE
       IN IF tok.kind # "jwt" THEN [ok |-> FALSE, name |-> "JsonWebTokenError"]
          ELSE IF tok.secret # secret
          THEN [ok |-> FALSE, name |-> "JsonWebTokenError"]
          ELSE IF t >= tok.exp THEN [ok |-> FALSE, name |-> "TokenExpiredError"]
          ELSE [ok |-> TRUE, decoded |-> [userId |-> tok.userId, exp |-> tok.exp]]

\* A word of a header that is no token, such as the scheme "Bearer".
Word(text) == [kind |-> "word", text |-> text]

\* header?.split(' ')[1] of a header given as its space-separated fields
SecondField(header) ==
  IF header = {} THEN {}
  ELSE LET fields == CHOOSE h \in header : TRUE
       IN IF Len(fields) >= 2 THEN {fields[2]} ELSE {}

(***************************************************************************)
(* 4. The refreshAccessToken middleware                                    *)
(***************************************************************************)

\* expiresIn: '15m' and '7d', in seconds
AccessTtl == 15 * 60
RefreshTtl == 7 * 24 * 60 * 60

Users == {"alice", "bob"}
Secrets == {"access-secret", "refresh-secret", "attacker-secret"}

\* The tokens a request may carry: tokens issued at login (time 0) for the
\* two lifetimes, under each secret, and a string that is no token.
RefreshTokens ==
  {JwtSign(u, s, e) : u \in Users, s \in Secrets, e \in {AccessTtl, RefreshTtl}}
    \cup {Garbage}

\* The times at which requests are handled.
RefreshTimes == {0, AccessTtl - 1, AccessTtl, RefreshTtl - 1, RefreshTtl}

\* req.headers.authorization: absent, a scheme alone, a token alone, or a
\* scheme and a token.
RefreshAuthorizations ==
  {{}} \cup {{<<Word("Bearer")>>}}
       \cup {{<<tok>>} : tok \in RefreshTokens}
       \cup {{<<Word("Bearer"), tok>>} : tok \in RefreshTokens}

\* req.cookies: no refreshToken cookie, or one holding a token
RefreshCookieJars ==
  {NoCookies} \cup {[refreshToken |-> tok] : tok \in RefreshTokens}

\* req.cookies.refreshToken
CookieValue(jar, name) == IF name \in DOMAIN jar THEN {jar[name]} ELSE {}

\* res before the middleware has touched it
FreshRes == [statusCode |-> 200, sent |-> FALSE, error |-> "", newAccessToken |-> {}]

\* Mutant: the new token is signed with the refresh secret.
NewAccessToken_RefreshSecret(userId, t) ==
  JwtSign(userId, "refresh-secret", t + AccessTtl)

\* jwt.sign({userId}, 'access-secret', {expiresIn: '15m'}) at time t
NewAccessToken(userId, t) == JwtSign(userId, "access-secret", t + AccessTtl)

\* res.status(401).json({error})
Send401(res, error) == [res EXCEPT !.statusCode = 401, !.sent = TRUE, !.error = error]

\* Mutant: the inner catch lets the request through.
RefreshWithCookie_NextOnFailure(request, t) ==
  LET refreshToken == CookieValue(request.cookies, "refreshToken")
      verified == JwtVerify(refreshToken, "refresh-secret", t)
  IN IF verified.ok
     THEN [res |-> [FreshRes EXCEPT !.newAccessToken =
                      {NewAccessToken(verified.decoded.userId, t)}],
           userId |-> {verified.decoded.userId},
           next |-> TRUE,
           cookieRead |-> TRUE]
     ELSE [res |-> FreshRes, userId |-> {}, next |-> TRUE, cookieRead |-> TRUE]

\* The catch branch of an expired access token: the inner try/catch.
\* The error '请重新登录' is written "relogin".
RefreshWithCookie(request, t) ==
  LET refreshToken == CookieValue(request.cookies, "refreshToken")
      verified == JwtVerify(refreshToken, "refresh-secret", t)
  IN IF verified.ok
     THEN [res |-> [FreshRes EXCEPT !.newAccessToken =
                      {NewAccessToken(verified.decoded.userId, t)}],
           userId |-> {verified.decoded.userId},
           next |-> TRUE,
           cookieRead |-> TRUE]
     ELSE [res |-> Send401(FreshRes, "relogin"),
           userId |-> {},
           next |-> FALSE,
           cookieRead |-> TRUE]

\* Mutant: every verification error of the access token, not only
\* TokenExpiredError, falls back to the refresh token.
RefreshOutcome_AnyErrorRefreshes(request, t) ==
  LET accessToken == SecondField(request.authorization)
      verified == JwtVerify(accessToken, "access-secret", t)
  IN IF verified.ok
     THEN [res |-> FreshRes, userId |-> {}, next |-> TRUE, cookieRead |-> FALSE]
     ELSE RefreshWithCookie(request, t)

\* async function refreshAccessToken(req, res, next): what it does with a
\* request handled at time t.  The error 'Token 无效' is written "invalid".
RefreshOutcome(request, t) ==
  LET accessToken == SecondField(request.authorization)
      verified == JwtVerify(accessToken, "access-secret", t)
  IN IF verified.ok
     THEN [res |-> FreshRes, userId |-> {}, next |-> TRUE, cookieRead |-> FALSE]
     ELSE IF verified.name = "TokenExpiredError"
     THEN RefreshWithCookie(request, t)
     ELSE [res |-> Send401(FreshRes, "invalid"),
           userId |-> {},
           next |-> FALSE,
           cookieRead |-> FALSE]

RefreshInit ==
  /\ rfRequest = [authorization |-> {}, cookies |-> NoCookies]
  /\ rfTime = 0
  /\ rfStage = "idle"
  /\ rfRes = FreshRes
  /\ rfUserId = {}
  /\ rfNextCalled = FALSE
  /\ rfCookieRead = FALSE

\* A request reaches the middleware.
RefreshReceive ==
  /\ rfStage = "idle"
  /\ \E a \in RefreshAuthorizations, c \in RefreshCookieJars, t \in RefreshTimes :
       /\ rfRequest' = [authorization |-> a, cookies |-> c]
       /\ rfTime' = t
  /\ rfStage' = "received"
  /\ rfRes' = FreshRes
  /\ rfUserId' = {}
  /\ rfNextCalled' = FALSE
  /\ rfCookieRead' = FALSE
  /\ KeepExceptRefresh

\* The middleware runs.
refreshAccessToken ==
  /\ rfStage = "received"
  /\ LET out == RefreshOutcome(rfRequest, rfTime)
     IN /\ rfRes' = out.res
        /\ rfUserId' = out.userId
        /\ rfNextCalled' = out.next
        /\ rfCookieRead' = out.cookieRead
  /\ rfStage' = "done"
  /\ UNCHANGED <<rfRequest, rfTime>>
  /\ KeepExceptRefresh

\* The exchange ends: req and res are dropped.
RefreshFinish ==
  /\ rfStage = "done"
  /\ rfRequest' = [authorization |-> {}, cookies |-> NoCookies]
  /\ rfTime' = 0
  /\ rfStage' = "idle"
  /\ rfRes' = FreshRes
  /\ rfUserId' = {}
  /\ rfNextCalled' = FALSE
  /\ rfCookieRead' = FALSE
  /\ KeepExceptRefresh

NextRefresh ==
  \/ RefreshReceive
  \/ refreshAccessToken
  \/ RefreshFinish

(***************************************************************************)
(* 5. The login route and the protected route                              *)
(***************************************************************************)

\* expiresIn: '1h', in seconds
HourTtl == 60 * 60

\* How many logins succeed in the model.
MaxLogins == 2

\* How often the time advances in the model.
MaxRouteTicks == 2

\* The steps by which the time advances.
RouteClockSteps == {1, HourTtl - 1, HourTtl}

\* process.env.JWT_SECRET
JwtSecret == "JWT_SECRET"

\* generateSessionId(): the n-th session id; ids are non-empty strings.
SessionId(n) == <<"sid", n>>
EmptyString == <<>>

\* Tokens nobody was issued: signed with a foreign secret, or no JWT at all.
ForgedTokens == {JwtSign("alice", "attacker-secret", 2 * HourTtl), Garbage}

\* The 'sessionId' cookie of a request: none, an empty one, or an id (the
\* ids of the store and one id that was never stored).
RouteCookieJars ==
  {NoCookies, [sessionId |-> EmptyString]}
    \cup {[sessionId |-> SessionId(n)] : n \in 1..(MaxLogins + 1)}

\* The Authorization header of a request, given the tokens in circulation.
RouteAuthorizations(tokens) ==
  {{}} \cup {{<<Word("Bearer")>>}} \cup {{<<Word("Bearer"), Word("")>>}}
       \cup {{<<Word(scheme), tok>>} : scheme \in {"Bearer", "Basic"}, tok \in tokens}

\* !sessionId and !token: undefined and '' are falsy
FalsyString(x) == x = {} \/ x = {EmptyString}
FalsyField(x) == x = {} \/ x = {Word("")}

\* A 401 response.  The errors '未授权', 'Session 无效' and 'Token 无效' are
\* written "unauthorized", "session-invalid" and "token-invalid".
Json401(error) == [status |-> 401, error |-> error, data |-> "", user |-> {}]

\* Mutant: the handler does not look the session up in the store.
ProtectedGet_NoSessionLookup(request, store, t) ==
  LET sessionId == CookieValue(request.cookies, "sessionId")
      token == SecondField(request.authorization)
      verified == JwtVerify(token, JwtSecret, t)
  IN IF FalsyString(sessionId) THEN Json401("unauthorized")
     ELSE IF FalsyField(token) THEN Json401("unauthorized")
     ELSE IF verified.ok
     THEN [status |-> 200, error |-> "", data |-> "protected-data",
           user |-> {verified.decoded}]
     ELSE Json401("token-invalid")

\* export async function GET(request) of app/api/protected/route.ts, with
\* the session store `store`, at time t.  The data '受保护的数据' is written
\* "protected-data".
ProtectedGet(request, store, t) ==
  LET sessionId == CookieValue(request.cookies, "sessionId")
      token == SecondField(request.authorization)
      verified == JwtVerify(token, JwtSecret, t)
  IN IF FalsyString(sessionId) THEN Json401("unauthorized")
     ELSE IF (CHOOSE x \in sessionId : TRUE) \notin DOMAIN store
     THEN Json401("session-invalid")
     ELSE IF FalsyField(token) THEN Json401("unauthorized")
     ELSE IF verified.ok
     THEN [status |-> 200, error |-> "", data |-> "protected-data",
           user |-> {verified.decoded}]
     ELSE Json401("token-invalid")

RouteInit ==
  /\ sessions = <<>>
  /\ issuedTokens = {}
  /\ routeTime = 0
  /\ routeTicks = 0
  /\ routeRequest = [cookies |-> NoCookies, authorization |-> {}]
  /\ routeStage = "idle"
  /\ routeResponse = [status |-> 0, error |-> "", data |-> "", user |-> {}]
  /\ loginResponse = [status |-> 0, token |-> {}]

\* export async function POST(request) of app/api/auth/login/route.ts:
\* validateUser finds no user (401), or finds one: a session is stored
\* under a new id and a token signed for the user is returned.
LoginPost ==
  /\ routeStage = "idle"
  /\ \/ /\ loginResponse' = [status |-> 401, token |-> {}]
        /\ UNCHANGED <<sessions, issuedTokens>>
     \/ /\ Cardinality(DOMAIN sessions) < MaxLogins
        /\ \E user \in Users :
             LET sessionId == SessionId(Cardinality(DOMAIN sessions) + 1)
                 token == JwtSign(user, JwtSecret, routeTime + HourTtl)
             IN /\ sessions' = MapSet(sessions, sessionId, user)
                /\ issuedTokens' = issuedTokens \cup {token}
                /\ loginResponse' = [status |-> 200, token |-> {token}]
  /\ routeStage' = "idle"
  /\ UNCHANGED <<routeTime, routeTicks, routeRequest, routeResponse>>
  /\ KeepExceptRoute

\* A GET request for /api/protected arrives.
RouteReceive ==
  /\ routeStage = "idle"
  /\ \E c \in RouteCookieJars,
        a \in RouteAuthorizations(issuedTokens \cup ForgedTokens) :
       routeRequest' = [cookies |-> c, authorization |-> a]
  /\ routeStage' = "received"
  /\ UNCHANGED <<sessions, issuedTokens, routeTime, routeTicks, routeResponse,
                 loginResponse>>
  /\ KeepExceptRoute

\* The GET handler runs.
protectedGET ==
  /\ routeStage = "received"
  /\ routeResponse' = ProtectedGet(routeRequest, sessions, routeTime)
  /\ routeStage' = "done"
  /\ UNCHANGED <<sessions, issuedTokens, routeTime, routeTicks, routeRequest,
                 loginResponse>>
  /\ KeepExceptRoute

\* Time passes.
RouteTick ==
  /\ routeStage = "idle"
  /\ routeTicks < MaxRouteTicks
  /\ \E d \in RouteClockSteps : routeTime' = routeTime + d
  /\ routeTicks' = routeTicks + 1
  /\ UNCHANGED <<sessions, issuedTokens, routeRequest, routeStage, routeResponse,
                 loginResponse>>
  /\ KeepExceptRoute

\* The exchange ends: the request and its response are dropped.
RouteFinish ==
  /\ routeStage = "done"
  /\ routeRequest' = [cookies |-> NoCookies, authorization |-> {}]
  /\ routeResponse' = [status |-> 0, error |-> "", data |-> "", user |-> {}]
  /\ routeStage' = "idle"
  /\ UNCHANGED <<sessions, issuedTokens, routeTime, routeTicks, loginResponse>>
  /\ KeepExceptRoute

NextRoute ==
  \/ LoginPost
  \/ RouteReceive
  \/ protectedGET
  \/ RouteTick
  \/ RouteFinish

(***************************************************************************)
(* 6. The useState Counter: batched updates                                *)
(***************************************************************************)

\* The counter stays within -MaxCount .. MaxCount in the model.
MaxCount == 12

\* setCount(value) and setCount(fn) queue an update until the next render.
ValueUpdate(value) == [kind |-> "value", value |-> value, fn |-> "none"]
FunctionUpdate(fn) == [kind |-> "function", value |-> 0, fn |-> fn]

\* The updater functions of the example: prev => prev + 1, prev => prev - 1
CallUpdater(fn, prev) == IF fn = "prev + 1" THEN prev + 1 ELSE prev - 1

\* Mutant: only the last queued update counts.
RECURSIVE ProcessQueue_LastOnly(_, _)
ProcessQueue_LastOnly(state, queue) ==
  IF queue = <<>> THEN state
  ELSE LET update == queue[Len(queue)]
       IN IF update.kind = "value" THEN update.value
          ELSE CallUpdater(update.fn, state)

\* The state of the next render: the queued updates applied in order, a
\* value replacing the state and a function applied to the state before it.
RECURSIVE ProcessQueue(_, _)
ProcessQueue(state, queue) ==
  IF queue = <<>> THEN state
  ELSE LET update == Head(queue)
           next == IF update.kind = "value" THEN update.value
                   ELSE CallUpdater(update.fn, state)
       IN ProcessQueue(next, Tail(queue))

\* const [count, setCount] = useState(0)
CounterInit ==
  /\ count = 0
  /\ countQueue = <<>>
  /\ counterEvent = "none"
  /\ countAtEvent = 0

\* An event handler runs to its end; it queues `updates`.
CounterEvent(name, updates) ==
  /\ countQueue = <<>>
  /\ count + Len(updates) <= MaxCount
  /\ count - Len(updates) >= -MaxCount
  /\ countQueue' = updates
  /\ counterEvent' = name
  /\ countAtEvent' = count
  /\ UNCHANGED count
  /\ KeepExceptCounter

\* const increment = () => setCount(prev => prev + 1)
increment == CounterEvent("increment", <<FunctionUpdate("prev + 1")>>)

\* const decrement = () => setCount(prev => prev - 1)
decrement == CounterEvent("decrement", <<FunctionUpdate("prev - 1")>>)

\* const incrementOld = () => setCount(count + 1)
incrementOld == CounterEvent("incrementOld", <<ValueUpdate(count + 1)>>)

\* handleClick: setCount(count + 1) three times
handleClick ==
  CounterEvent("handleClick",
               <<ValueUpdate(count + 1), ValueUpdate(count + 1), ValueUpdate(count + 1)>>)

\* handleClickCorrect: setCount(prev => prev + 1) three times
handleClickCorrect ==
  CounterEvent("handleClickCorrect",
               <<FunctionUpdate("prev + 1"), FunctionUpdate("prev + 1"),
                 FunctionUpdate("prev + 1")>>)

\* React renders Counter again after the event: the queue is processed.
CounterRender ==
  /\ countQueue # <<>>
  /\ count' = ProcessQueue(count, countQueue)
  /\ countQueue' = <<>>
  /\ UNCHANGED <<counterEvent, countAtEvent>>
  /\ KeepExceptCounter

NextCounter ==
  \/ increment
  \/ decrement
  \/ incrementOld
  \/ handleClick
  \/ handleClickCorrect
  \/ CounterRender

(***************************************************************************)
(* 7. JSON text (JSON.stringify and JSON.parse on strings and null)        *)
(***************************************************************************)

Quote == "\""
Backslash == "\\"

\* JavaScript values: null, and strings as sequences of characters.
JsNull == [type |-> "null", chars |-> <<>>]
JsString(chars) == [type |-> "string", chars |-> chars]

\* The text of the literal null
NullText == <<"n", "u", "l", "l">>

\* The characters of a string as they stand between the quotes of its JSON
\* text: a quote and a backslash are preceded by a backslash.
RECURSIVE JsonEscape(_)
JsonEscape(chars) ==
  IF chars = <<>> THEN <<>>
  ELSE (IF Head(chars) \in {Quote, Backslash}
        THEN <<Backslash, Head(chars)>>
        ELSE <<Head(chars)>>) \o JsonEscape(Tail(chars))

\* The characters that the text between two quotes stands for; not ok when
\* the text holds a bare quote or an incomplete or unknown escape.
RECURSIVE JsonUnescape(_)
JsonUnescape(text) ==
  IF text = <<>> THEN [ok |-> TRUE, chars |-> <<>>]
  ELSE IF Head(text) = Quote THEN [ok |-> FALSE, chars |-> <<>>]
  ELSE IF Head(text) = Backslash
  THEN IF Len(text) >= 2 /\ text[2] \in {Quote, Backslash}
       THEN LET rest == JsonUnescape(SubSeq(text, 3, Len(text)))
            IN [ok |-> rest.ok, chars |-> <<text[2]>> \o rest.chars]
       ELSE [ok |-> FALSE, chars |-> <<>>]
  ELSE LET rest == JsonUnescape(Tail(text))
       IN [ok |-> rest.ok, chars |-> <<Head(text)>> \o rest.chars]

\* JSON.stringify(value)
JsonStringify(value) ==
  IF value.type = "null" THEN NullText
  ELSE <<Quote>> \o JsonEscape(value.chars) \o <<Quote>>

\* JSON.parse(text): the value, or not ok for the SyntaxError it throws
JsonParse(text) ==
  IF text = NullText THEN [ok |-> TRUE, value |-> JsNull]
  ELSE IF Len(text) >= 2 /\ text[1] = Quote /\ text[Len(text)] = Quote
  THEN LET inner == JsonUnescape(SubSeq(text, 2, Len(text) - 1))
       IN [ok |-> inner.ok, value |-> JsString(inner.chars)]
  ELSE [ok |-> FALSE, value |-> JsNull]

(***************************************************************************)
(* 8. useLocalStorage                                                      *)
(***************************************************************************)

\* How many times setValue is called in one event, before React renders.
MaxBatch == 2

Light == <<"l", "i", "g", "h", "t">>
Dark == <<"d", "a", "r", "k">>

\* The keys of the example: 'name' and 'theme'
LsKeys == {"name", "theme"}

\* The values the hook is given: the themes, an empty string, a string with
\* a quote in it, and null
LsValues ==
  {JsString(Light), JsString(Dark), JsString(<<>>), JsString(<<"a", Quote>>), JsNull}

\* The initial values the hook is mounted with
LsInitialValues == {JsString(Light), JsNull}

\* What other code may have left in localStorage: JSON texts, an empty
\* text, and texts that are no JSON (a bare word, an unfinished string)
ForeignTexts ==
  {JsonStringify(v) : v \in LsValues} \cup {<<>>, Dark, <<Quote, "a">>}

\* setValue's argument: a value, or a function of the previous value
PlainArg(value) == [isFunction |-> FALSE, value |-> {value}, fn |-> "none"]
FunctionArg(fn) == [isFunction |-> TRUE, value |-> {}, fn |-> fn]

LsArgs == {PlainArg(v) : v \in LsValues} \cup {FunctionArg("toggleTheme")}

\* t => t === 'light' ? 'dark' : 'light'
CallLsFunction(fn, prev) ==
  IF prev = JsString(Light) THEN JsString(Dark) ELSE JsString(Light)

\* window.localStorage.getItem(key): the text, or nothing (null)
GetItem(storage, key) == IF key \in DOMAIN storage THEN {storage[key]} ELSE {}

\* Mutant: the initializer returns the entry's text itself, unparsed.
LazyInitialValue_Unparsed(storage, key, initialValue) ==
  LET item == GetItem(storage, key)
  IN IF item = {} \/ item = {<<>>} THEN initialValue
     ELSE JsString(CHOOSE x \in item : TRUE)

\* The function given to useState: the parsed entry, or initialValue when
\* there is no entry, the entry is '' or JSON.parse throws.
LazyInitialValue(storage, key, initialValue) ==
  LET item == GetItem(storage, key)
  IN IF item = {} \/ item = {<<>>} THEN initialValue
     ELSE LET parsed == JsonParse(CHOOSE x \in item : TRUE)
          IN IF parsed.ok THEN parsed.value ELSE initialValue

\* The text setValue writes: JSON.stringify(valueToStore)
StoredText(value) == JsonStringify(value)

\* value instanceof Function ? value(storedValue) : value
ValueToStore(arg, current) ==
  IF arg.isFunction THEN CallLsFunction(arg.fn, current)
  ELSE CHOOSE v \in arg.value : TRUE

NoLsHistory ==
  [entryAtMount |-> {}, firstValue |-> {}, lastArg |-> {}, lastValue |-> {},
   lastWrite |-> "none", entryBeforeWrite |-> {}, functionCalls |-> 0]

\* History: how many setValue calls the event has made so far, this one
\* included, if each of them passed a function, else 0.
FunctionCalls(arg, queue, before) ==
  IF arg.isFunction /\ before = Len(queue) THEN before + 1 ELSE 0

LsInit ==
  /\ localStorage = <<>>
  /\ lsHook = {}
  /\ storedValue = JsNull
  /\ lsQueue = <<>>
  /\ lsHistory = NoLsHistory

\* Other code writes a text to localStorage before the component mounts.
ForeignSetItem ==
  /\ lsHook = {}
  /\ \E key \in LsKeys, text \in ForeignTexts :
       /\ GetItem(localStorage, key) # {text}
       /\ localStorage' = MapSet(localStorage, key, text)
  /\ UNCHANGED <<lsHook, storedValue, lsQueue, lsHistory>>
  /\ KeepExceptLs

\* The component mounts: useLocalStorage(key, initialValue) runs for the
\* first time and useState runs its initializer.
LsMount ==
  /\ lsHook = {}
  /\ \E key \in LsKeys, initialValue \in LsInitialValues :
       LET first == LazyInitialValue(localStorage, key, initialValue)
       IN /\ lsHook' = {[key |-> key, initialValue |-> initialValue]}
          /\ storedValue' = first
          /\ lsHistory' = [NoLsHistory EXCEPT
                             !.entryAtMount = GetItem(localStorage, key),
                             !.firstValue = {first}]
  /\ UNCHANGED <<localStorage, lsQueue>>
  /\ KeepExceptLs

\* setValue(arg): the state update is queued, then the text is written;
\* setItem may throw (the quota is exceeded), which setValue catches.
setValue ==
  /\ lsHook # {}
  /\ Len(lsQueue) < MaxBatch
  /\ \E arg \in LsArgs, setItemThrows \in BOOLEAN :
       LET key == (CHOOSE h \in lsHook : TRUE).key
           valueToStore == ValueToStore(arg, storedValue)
       IN /\ lsQueue' = Append(lsQueue, ValueUpdate(valueToStore))
          /\ localStorage' =
               IF setItemThrows THEN localStorage
               ELSE MapSet(localStorage, key, StoredText(valueToStore))
          /\ lsHistory' = [lsHistory EXCEPT
                             !.lastArg = {arg},
                             !.lastValue = {valueToStore},
                             !.lastWrite = IF setItemThrows THEN "threw" ELSE "stored",
                             !.entryBeforeWrite = GetItem(localStorage, key),
                             !.functionCalls =
                               FunctionCalls(arg, lsQueue, lsHistory.functionCalls)]
  /\ UNCHANGED <<lsHook, storedValue>>
  /\ KeepExceptLs

\* React renders the component again: the queued updates are applied and
\* setValue is created anew over the new storedValue.
LsRender ==
  /\ lsHook # {}
  /\ lsQueue # <<>>
  /\ storedValue' = ProcessQueue(storedValue, lsQueue)
  /\ lsQueue' = <<>>
  /\ lsHistory' = [lsHistory EXCEPT !.functionCalls = 0]
  /\ UNCHANGED <<localStorage, lsHook>>
  /\ KeepExceptLs

\* The component unmounts; localStorage stays.
LsUnmount ==
  /\ lsHook # {}
  /\ lsQueue = <<>>
  /\ lsHook' = {}
  /\ storedValue' = JsNull
  /\ lsHistory' = NoLsHistory
  /\ UNCHANGED <<localStorage, lsQueue>>
  /\ KeepExceptLs

NextLs ==
  \/ ForeignSetItem
  \/ LsMount
  \/ setValue
  \/ LsRender
  \/ LsUnmount

(***************************************************************************)
(* 9. getCachedData                                                        *)
(***************************************************************************)

\* How many times getCachedData is called in the model.
MaxCacheCalls == 4

\* The keys and the fetchers the callers pass.
CacheKeys == {"user-1", "user-2"}
Fetchers == {"fetchUser", "fetchProfile"}

\* Mutant: the fetcher is called and its promise stored on every call.
CacheLookup_AlwaysFetch(map, key, fresh) ==
  LET stored == MapSet(map, key, fresh)
  IN [cache |-> stored, fetched |-> TRUE, returned |-> stored[key]]

\* The body of getCachedData, `fresh` being the promise fetcher() returns
\* if it is called: the cache afterwards, whether fetcher was called, and
\* the promise returned.
CacheLookup(map, key, fresh) ==
  IF key \notin DOMAIN map
  THEN LET stored == MapSet(map, key, fresh)
       IN [cache |-> stored, fetched |-> TRUE, returned |-> stored[key]]
  ELSE [cache |-> map, fetched |-> FALSE, returned |-> map[key]]

CacheInit ==
  /\ cache = <<>>
  /\ promises = <<>>
  /\ cacheReturned = {}
  /\ cacheCalls = 0
  /\ firstReturned = <<>>

\* function getCachedData(key, fetcher), called by a render
getCachedData(key, fetcher) ==
  /\ cacheCalls < MaxCacheCalls
  /\ LET fresh == Len(promises) + 1
         out == CacheLookup(cache, key, fresh)
     IN /\ cache' = out.cache
        /\ promises' =
             IF out.fetched
             THEN Append(promises,
                         [fetcher |-> fetcher, key |-> key, status |-> "pending"])
             ELSE promises
        /\ cacheReturned' = {[key |-> key, promise |-> out.returned]}
        /\ firstReturned' =
             IF key \in DOMAIN firstReturned THEN firstReturned
             ELSE MapSet(firstReturned, key, out.returned)
  /\ cacheCalls' = cacheCalls + 1
  /\ KeepExceptCache

\* A pending promise settles: the request succeeds or fails.
PromiseSettles ==
  /\ \E p \in DOMAIN promises, outcome \in {"fulfilled", "rejected"} :
       /\ promises[p].status = "pending"
       /\ promises' = [promises EXCEPT ![p].status = outcome]
  /\ UNCHANGED <<cache, cacheReturned, cacheCalls, firstReturned>>
  /\ KeepExceptCache

NextCache ==
  \/ \E key \in CacheKeys, fetcher \in Fetchers : getCachedData(key, fetcher)
  \/ PromiseSettles

(***************************************************************************)
(* 10. useDebounce                                                         *)
(***************************************************************************)

\* The time between two looks at the clock (ms).
DebounceTickMs == 100

\* The queries typed into Search, and the delays the hook is given.
DebounceValues == {"", "r", "re"}
DebounceDelays == {0, 300, 500}

\* setTimeout(() => setDebouncedValue(value), delay) by an effect that ran
\* because of `startedBy`: the mount, a changed value, a changed delay.
NewTimer(value, delay, startedBy) ==
  [value |-> value, delay |-> delay, elapsed |-> 0, startedBy |-> startedBy,
   current |-> TRUE]

\* Mutant: the cleanup does not clear the timer.
ClearTimeout_Nothing(timers, cleared) == timers

\* clearTimeout(timer), for the timers in `cleared`; clearing a timer that
\* has fired does nothing.
ClearTimeout(timers, cleared) == timers \ cleared

\* The effect's cleanup: it clears the timer its effect started.  What stays
\* pending was started before the last change of value or delay.
EffectCleanup(timers) ==
  {[t EXCEPT !.current = FALSE] :
     t \in ClearTimeout(timers, {t \in timers : t.current})}

DebounceInit ==
  /\ dbMounted = FALSE
  /\ dbValue = ""
  /\ dbDelay = 0
  /\ debouncedValue = ""
  /\ dbTimers = {}
  /\ dbSetBy = [by |-> "none"]

\* The first render of a component that calls useDebounce(value, delay):
\* useState(value), then the effect runs.
DebounceMount ==
  /\ ~dbMounted
  /\ \E value \in DebounceValues, delay \in DebounceDelays :
       /\ dbValue' = value
       /\ dbDelay' = delay
       /\ debouncedValue' = value
       /\ dbTimers' = dbTimers \cup {NewTimer(value, delay, "mount")}
  /\ dbMounted' = TRUE
  /\ dbSetBy' = [by |-> "useState"]
  /\ KeepExceptDebounce

\* A render with another value or another delay: the dependencies differ,
\* so the last effect's cleanup runs and then the effect.
DebounceChange ==
  /\ dbMounted
  /\ \E value \in DebounceValues, delay \in DebounceDelays :
       /\ <<value, delay>> # <<dbValue, dbDelay>>
       /\ dbValue' = value
       /\ dbDelay' = delay
       /\ dbTimers' =
            EffectCleanup(dbTimers)
              \cup {NewTimer(value, delay,
                             IF value # dbValue THEN "value" ELSE "delay")}
  /\ UNCHANGED <<dbMounted, debouncedValue, dbSetBy>>
  /\ KeepExceptDebounce

\* A render with the same value and delay (the parent rendered again): the
\* dependencies are the same, the effect does not run.
DebounceRerender ==
  /\ dbMounted
  /\ UNCHANGED debounceVars
  /\ KeepExceptDebounce

\* Time passes for the pending timers.
DebounceTick ==
  /\ \E t \in dbTimers : t.elapsed < t.delay
  /\ dbTimers' =
       {IF t.elapsed < t.delay
        THEN [t EXCEPT !.elapsed = t.elapsed + DebounceTickMs] ELSE t :
          t \in dbTimers}
  /\ UNCHANGED <<dbMounted, dbValue, dbDelay, debouncedValue, dbSetBy>>
  /\ KeepExceptDebounce

\* A timer that has run for its delay fires: setDebouncedValue(value), and
\* the render that follows has the same dependencies.
DebounceTimerFires ==
  /\ \E t \in dbTimers :
       /\ t.elapsed >= t.delay
       /\ debouncedValue' = t.value
       /\ dbTimers' = dbTimers \ {t}
       /\ dbSetBy' = [by |-> "timer", timer |-> t, mounted |-> dbMounted,
                       value |-> dbValue, delay |-> dbDelay]
  /\ UNCHANGED <<dbMounted, dbValue, dbDelay>>
  /\ KeepExceptDebounce

\* The component unmounts: the last effect's cleanup runs.
DebounceUnmount ==
  /\ dbMounted
  /\ dbMounted' = FALSE
  /\ dbTimers' = EffectCleanup(dbTimers)
  /\ UNCHANGED <<dbValue, dbDelay, debouncedValue, dbSetBy>>
  /\ KeepExceptDebounce

NextDebounce ==
  \/ DebounceMount
  \/ DebounceChange
  \/ DebounceRerender
  \/ DebounceTick
  \/ DebounceTimerFires
  \/ DebounceUnmount

(***************************************************************************)
(* 11. The render counters of Counter (useRef) and PerformanceDemo         *)
(***************************************************************************)

\* How often a mounted component renders in the model.
MaxRenders == 6

\* useState(initializer): React calls a function given to useState on the
\* initial render only.
InitializerRuns(initialRender) == initialRender

\* Counter's body: useState(() => { renderCount.current++ }), then the
\* number the JSX shows.
CounterBody(ref, initialRender) ==
  LET current == IF InitializerRuns(initialRender) THEN ref + 1 ELSE ref
  IN [ref |-> current, shown |-> current]

\* PerformanceDemo's body: useState(() => { setRenderCount(c => c + 1) }).
\* The update is made while rendering, so React renders the body once more
\* with it applied before it shows anything.
PerformanceDemoBody(renderCount, initialRender) ==
  LET state == IF InitializerRuns(initialRender) THEN renderCount + 1
               ELSE renderCount
  IN [renderCount |-> state, shown |-> state]

RenderInit ==
  /\ rcMounted = FALSE
  /\ rcCount = 0
  /\ renderCountRef = 0
  /\ rcShown = 0
  /\ rcRenders = 0
  /\ pdMounted = FALSE
  /\ pdA = 1
  /\ pdB = 2
  /\ pdRenderCount = 0
  /\ pdShown = 0
  /\ pdRenders = 0

\* Counter mounts: useState(0), useRef(0), and the first render.
RenderCounterMount ==
  /\ ~rcMounted
  /\ rcMounted' = TRUE
  /\ rcCount' = 0
  /\ LET out == CounterBody(0, TRUE)
     IN renderCountRef' = out.ref /\ rcShown' = out.shown
  /\ rcRenders' = 1
  /\ UNCHANGED <<pdMounted, pdA, pdB, pdRenderCount, pdShown, pdRenders>>
  /\ KeepExceptRender

\* onClick={() => setCount(c => c + 1)} and the render that follows
RenderCounterClick ==
  /\ rcMounted
  /\ rcRenders < MaxRenders
  /\ rcCount' = rcCount + 1
  /\ LET out == CounterBody(renderCountRef, FALSE)
     IN renderCountRef' = out.ref /\ rcShown' = out.shown
  /\ rcRenders' = rcRenders + 1
  /\ UNCHANGED <<rcMounted, pdMounted, pdA, pdB, pdRenderCount, pdShown, pdRenders>>
  /\ KeepExceptRender

RenderCounterUnmount ==
  /\ rcMounted
  /\ rcMounted' = FALSE
  /\ rcCount' = 0 /\ renderCountRef' = 0 /\ rcShown' = 0 /\ rcRenders' = 0
  /\ UNCHANGED <<pdMounted, pdA, pdB, pdRenderCount, pdShown, pdRenders>>
  /\ KeepExceptRender

\* PerformanceDemo mounts: useState(1), useState(2), useState(0), and the
\* first render.
PerformanceDemoMount ==
  /\ ~pdMounted
  /\ pdMounted' = TRUE
  /\ pdA' = 1
  /\ pdB' = 2
  /\ LET out == PerformanceDemoBody(0, TRUE)
     IN pdRenderCount' = out.renderCount /\ pdShown' = out.shown
  /\ pdRenders' = 1
  /\ UNCHANGED <<rcMounted, rcCount, renderCountRef, rcShown, rcRenders>>
  /\ KeepExceptRender

\* The render after a click on a button of PerformanceDemo.
PerformanceDemoRender(a, b) ==
  /\ pdMounted
  /\ pdRenders < MaxRenders
  /\ pdA' = a
  /\ pdB' = b
  /\ LET out == PerformanceDemoBody(pdRenderCount, FALSE)
     IN pdRenderCount' = out.renderCount /\ pdShown' = out.shown
  /\ pdRenders' = pdRenders + 1
  /\ UNCHANGED <<pdMounted, rcMounted, rcCount, renderCountRef, rcShown, rcRenders>>
  /\ KeepExceptRender

\* onClick={() => setA(a + 1)}
PerformanceDemoClickA == PerformanceDemoRender(pdA + 1, pdB)

\* onClick={() => setB(b + 1)}
PerformanceDemoClickB == PerformanceDemoRender(pdA, pdB + 1)

PerformanceDemoUnmount ==
  /\ pdMounted
  /\ pdMounted' = FALSE
  /\ pdA' = 1 /\ pdB' = 2 /\ pdRenderCount' = 0 /\ pdShown' = 0 /\ pdRenders' = 0
  /\ UNCHANGED <<rcMounted, rcCount, renderCountRef, rcShown, rcRenders>>
  /\ KeepExceptRender

NextRender ==
  \/ RenderCounterMount
  \/ RenderCounterClick
  \/ RenderCounterUnmount
  \/ PerformanceDemoMount
  \/ PerformanceDemoClickA
  \/ PerformanceDemoClickB
  \/ PerformanceDemoUnmount

(***************************************************************************)
(* 12. The site: pages, routes, navigation bar and sidebars                *)
(*                                                                         *)
(* A link or route '/a/b/' is the sequence <<"a", "b", "">> of the text    *)
(* between its slashes; '/' is <<"">>.                                     *)
(***************************************************************************)

\* themeConfig.nav (the texts left out)
nav ==
  <<[link |-> <<"">>],
    [link |-> <<"guides", "">>],
    [link |-> <<"api", "">>],
    [link |-> <<"best-practices", "">>],
    [link |-> <<"examples", "">>]>>

\* themeConfig.sidebar: key -> groups of items; an item has a link or,
\* nested, its own items (the texts and `collapsed` left out)
sidebar ==
  (<<"guides", "">> :>
      <<[items |->
         <<[link |-> <<"guides", "">>]>>],
        [items |->
         <<[link |-> <<"guides", "general", "rendering-modes">>],
           [link |-> <<"guides", "general", "network-communication">>],
           [link |-> <<"guides", "general", "authentication">>]>>],
        [items |->
         <<[link |-> <<"guides", "react", "">>],
           [link |-> <<"guides", "react", "hooks", "">>],
           [link |-> <<"guides", "react", "use-api">>],
           [items |->
            <<[link |-> <<"guides", "react", "hooks", "useState">>],
              [link |-> <<"guides", "react", "hooks", "useReducer">>],
              [link |-> <<"guides", "react", "hooks", "useEffect">>],
              [link |-> <<"guides", "react", "hooks", "useRef">>],
              [link |-> <<"guides", "react", "hooks", "useCallback-useMemo">>],
              [link |-> <<"guides", "react", "hooks", "custom-hooks">>]>>]>>],
        [items |->
         <<[link |-> <<"guides", "nextjs", "">>],
           [link |-> <<"guides", "nextjs", "app-router">>],
           [link |-> <<"guides", "nextjs", "navigation">>],
           [link |-> <<"guides", "nextjs", "route-groups">>],
           [link |-> <<"guides", "nextjs", "router-handle">>],
           [link |-> <<"guides", "nextjs", "proxy">>],
           [items |->
            <<[link |-> <<"guides", "nextjs", "data-fetching">>],
              [link |-> <<"guides", "nextjs", "caching">>],
              [link |-> <<"guides", "nextjs", "middleware">>],
              [link |-> <<"guides", "nextjs", "error-handling">>]>>]>>],
        [items |->
         <<[link |-> <<"guides", "nodejs", "">>]>>],
        [items |->
         <<[link |-> <<"guides", "go", "">>]>>]>>)
  @@ (<<"api", "">> :>
      <<[items |->
         <<[link |-> <<"api", "">>]>>],
        [items |->
         <<[link |-> <<"api", "react", "">>]>>],
        [items |->
         <<[link |-> <<"api", "nodejs", "">>]>>]>>)
  @@ (<<"best-practices", "">> :>
      <<[items |->
         <<[link |-> <<"best-practices", "">>]>>],
        [items |->
         <<[link |-> <<"best-practices", "react", "">>]>>],
        [items |->
         <<[link |-> <<"best-practices", "nodejs", "">>]>>]>>)
  @@ (<<"examples", "">> :>
      <<[items |->
         <<[link |-> <<"examples", "">>],
           [link |-> <<"examples", "markdown-examples">>],
           [link |-> <<"examples", "api-examples">>]>>]>>)
  @@ (<<"meta", "">> :>
      <<[items |->
         <<[link |-> <<"meta", "">>],
           [link |-> <<"meta", "ai-writing-guide">>]>>]>>)

MdFile(dir, name) == [dir |-> dir, name |-> name, ext |-> "md"]

\* The Markdown files with a known path
NamedFiles ==
  {MdFile(<<"examples">>, "markdown-examples"),
   MdFile(<<"guides", "general">>, "network-communication"),
   MdFile(<<"guides", "general">>, "rendering-modes"),
   MdFile(<<"guides", "nextjs">>, "app-router"),
   MdFile(<<"guides", "nextjs">>, "caching"),
   MdFile(<<"guides", "nextjs">>, "error-handling"),
   MdFile(<<"guides", "nextjs">>, "index"),
   MdFile(<<"guides", "nextjs">>, "route-groups"),
   MdFile(<<"guides", "nextjs">>, "router-handle"),
   MdFile(<<"guides", "react", "hooks">>, "index"),
   MdFile(<<"guides", "react", "hooks">>, "useCallback-useMemo"),
   MdFile(<<"guides", "react", "hooks">>, "useReducer"),
   MdFile(<<"guides", "react", "hooks">>, "useRef"),
   MdFile(<<"guides", "react">>, "index"),
   MdFile(<<"guides", "react">>, "use-api")}

\* The Markdown files whose path is not recorded, each at the path under
\* which the configuration and the other pages link to a page of its title:
\* the API reference, the guides' index, the authentication, proxy, data
\* fetching, navigation, useEffect and custom hooks guides, the best
\* practices' index and the home page.
TitledFiles ==
  {MdFile(<<"api">>, "index"),
   MdFile(<<"guides">>, "index"),
   MdFile(<<"guides", "general">>, "authentication"),
   MdFile(<<"guides", "nextjs">>, "proxy"),
   MdFile(<<"guides", "nextjs">>, "data-fetching"),
   MdFile(<<"guides", "nextjs">>, "navigation"),
   MdFile(<<"guides", "react", "hooks">>, "useEffect"),
   MdFile(<<"guides", "react", "hooks">>, "custom-hooks"),
   MdFile(<<"best-practices">>, "index"),
   MdFile(<<>>, "index")}

\* The site's source files: the pages and the configuration
SourceFiles ==
  NamedFiles \cup TitledFiles
    \cup {[dir |-> <<".vitepress">>, name |-> "config", ext |-> "mts"]}

\* The route of a page: a/b/index.md is served at /a/b/, a/b/c.md at /a/b/c
RouteOf(file) == file.dir \o <<IF file.name = "index" THEN "" ELSE file.name>>

SiteRoutes == {RouteOf(file) : file \in {f \in SourceFiles : f.ext = "md"}}

\* The links of a list of items, at any depth
RECURSIVE ItemLinks(_)
ItemLinks(items) ==
  IF items = <<>> THEN {}
  ELSE (IF "items" \in DOMAIN Head(items) THEN ItemLinks(Head(items).items)
        ELSE {Head(items).link})
       \cup ItemLinks(Tail(items))

NavLinks == {nav[i].link : i \in DOMAIN nav}
SidebarLinks(key) == ItemLinks(sidebar[key])

\* Whether the text of `route` starts with the text of `key`.  A key ends
\* with a slash (its last segment is empty), so that is: the segments
\* before that slash are the first segments of the route, and more follows.
HasPathPrefix(route, key) ==
  /\ Len(route) >= Len(key)
  /\ SubSeq(route, 1, Len(key) - 1) = SubSeq(key, 1, Len(key) - 1)
  /\ key[Len(key)] \in {"", route[Len(key)]}

\* The sidebar of a page: that of the longest key its route starts with
SidebarOf(route) ==
  LET keys == {k \in DOMAIN sidebar : HasPathPrefix(route, k)}
  IN {k \in keys : \A other \in keys : Len(other) <= Len(k)}

SiteInit ==
  /\ siteLocation = <<"">>
  /\ sitePage = "none"
  /\ siteSidebar = {}
  /\ siteFollowed = [from |-> "none"]

\* The browser goes to `route`: the page if there is one, with its sidebar,
\* else the not-found page, which has no sidebar.
SiteVisit(route) ==
  /\ siteLocation' = route
  /\ sitePage' = IF route \in SiteRoutes THEN "page" ELSE "notfound"
  /\ siteSidebar' = IF route \in SiteRoutes THEN SidebarOf(route) ELSE {}

\* The visitor opens a page of the site by its address.
SiteOpen ==
  /\ \E route \in SiteRoutes : SiteVisit(route)
  /\ siteFollowed' = [from |-> "address"]
  /\ KeepExceptSite

\* The visitor follows a link of the navigation bar, shown on every page.
SiteFollowNav ==
  /\ sitePage # "none"
  /\ \E link \in NavLinks :
       /\ SiteVisit(link)
       /\ siteFollowed' = [from |-> "nav", link |-> link, at |-> siteLocation]
  /\ KeepExceptSite

\* The visitor follows a link of the sidebar shown.
SiteFollowSidebar ==
  /\ \E key \in siteSidebar : \E link \in SidebarLinks(key) :
       /\ SiteVisit(link)
       /\ siteFollowed' =
            [from |-> "sidebar", key |-> key, link |-> link, at |-> siteLocation]
  /\ KeepExceptSite

NextSite ==
  \/ SiteOpen
  \/ SiteFollowNav
  \/ SiteFollowSidebar

(***************************************************************************)
(* 13. formReducer and Form                                                *)
(***************************************************************************)

\* What the inputs hold
FormTexts == {"", "a", "b"}

\* The fields an action names: those of the form, and another one
FormFields == {"firstName", "lastName", "email", "phone"}

\* useReducer(formReducer, {firstName: '', lastName: '', email: ''})
FormInitialArg == [firstName |-> "", lastName |-> "", email |-> ""]

\* The snippet of formReducer declares no initialState.  The page declares
\* const initialState = { count: 0 } and, further down,
\* const initialState = { count: 0, step: 1 } for other reducers; taken
\* alone, the snippet has no binding and evaluating the name throws a
\* ReferenceError.
InitialStateBindings == {{}, {[count |-> 0]}, {[count |-> 0, step |-> 1]}}

FormActions ==
  {[type |-> "setField", field |-> f, value |-> v] :
     f \in FormFields, v \in FormTexts}
    \cup {[type |-> "reset"], [type |-> "submit"]}

\* { ...state, [field]: value }
SpreadWith(state, field, value) ==
  [k \in DOMAIN state \cup {field} |-> IF k = field THEN value ELSE state[k]]

\* formReducer(state, action), with the binding of initialState in scope:
\* the state returned, or thrown
formReducer(state, action, scope) ==
  IF action.type = "setField"
  THEN [thrown |-> FALSE,
        state |-> SpreadWith(state, action.field, action.value)]
  ELSE IF action.type = "reset"
  THEN IF scope = {} THEN [thrown |-> TRUE, state |-> state]
       ELSE [thrown |-> FALSE, state |-> CHOOSE bound \in scope : TRUE]
  ELSE [thrown |-> FALSE, state |-> state]

FormInit ==
  /\ formMounted = FALSE
  /\ formScope = {}
  /\ form = FormInitialArg
  /\ formThrown = FALSE
  /\ formLast = [action |-> [type |-> "none"], before |-> FormInitialArg]

\* Form mounts in a module with one of the bindings of initialState.
FormMount ==
  /\ ~formMounted
  /\ formMounted' = TRUE
  /\ formScope' \in InitialStateBindings
  /\ form' = FormInitialArg
  /\ formThrown' = FALSE
  /\ formLast' = [action |-> [type |-> "none"], before |-> FormInitialArg]
  /\ KeepExceptForm

\* dispatch(action) and the render that follows; when the reducer throws,
\* React unmounts the tree and the state is lost.
FormDispatch ==
  /\ formMounted
  /\ ~formThrown
  /\ \E action \in FormActions :
       LET out == formReducer(form, action, formScope)
       IN /\ form' = out.state
          /\ formThrown' = out.thrown
          /\ formLast' = [action |-> action, before |-> form]
  /\ UNCHANGED <<formMounted, formScope>>
  /\ KeepExceptForm

FormUnmount ==
  /\ formMounted
  /\ formMounted' = FALSE
  /\ formScope' = {}
  /\ form' = FormInitialArg
  /\ formThrown' = FALSE
  /\ formLast' = [action |-> [type |-> "none"], before |-> FormInitialArg]
  /\ KeepExceptForm

NextForm ==
  \/ FormMount
  \/ FormDispatch
  \/ FormUnmount

(***************************************************************************)
(* 14. usePrevious                                                         *)
(***************************************************************************)

\* How often a mounted component renders in the model.
MaxPreviousRenders == 5

\* The counts passed as value
PreviousValues == {0, 1, 2, 3}

\* Mutant: the effect runs after the first render only (dependencies []).
EffectRuns_MountOnly(deps, value) == deps = {}

\* useEffect(..., [value]): the effect runs after the first render and after
\* a render whose value is not the one of the render before (Object.is).
EffectRuns(deps, value) == deps = {} \/ deps # {value}

PreviousInit ==
  /\ upPhase = "unmounted"
  /\ upRenders = 0
  /\ upValue = 0
  /\ upDeps = {}
  /\ upRef = {}
  /\ upReturned = {}

\* A render of the component that calls usePrevious(value): the first one
\* creates the ref (useRef()), every one returns ref.current.  React runs
\* the effects of a render before it renders again.
PreviousRender ==
  /\ upPhase \in {"unmounted", "idle"}
  /\ upRenders < MaxPreviousRenders
  /\ \E value \in PreviousValues : upValue' = value
  /\ upDeps' = IF upPhase = "unmounted" THEN {} ELSE {upValue}
  /\ upRef' = IF upPhase = "unmounted" THEN {} ELSE upRef
  /\ upReturned' = upRef'
  /\ upRenders' = upRenders + 1
  /\ upPhase' = "rendered"
  /\ KeepExceptPrevious

\* After the render: the effect, if its dependencies changed.
PreviousEffect ==
  /\ upPhase = "rendered"
  /\ upRef' = IF EffectRuns(upDeps, upValue) THEN {upValue} ELSE upRef
  /\ upPhase' = "idle"
  /\ UNCHANGED <<upRenders, upValue, upDeps, upReturned>>
  /\ KeepExceptPrevious

PreviousUnmount ==
  /\ upPhase = "idle"
  /\ upPhase' = "unmounted"
  /\ upRenders' = 0
  /\ upValue' = 0
  /\ upDeps' = {}
  /\ upRef' = {}
  /\ upReturned' = {}
  /\ KeepExceptPrevious

NextPrevious ==
  \/ PreviousRender
  \/ PreviousEffect
  \/ PreviousUnmount

(***************************************************************************)
(* 15. DataProcessor                                                       *)
(***************************************************************************)

\* The time between two looks at the clock (ms).
ProcessorTickMs == 250

\* setTimeout(..., 500)
ProcessingMs == 500

\* The items of the two buttons
ProcessorItems == {"A", "B"}

\* The template string of the result: the prefix and the item
ResultOf(item) == <<"processed ", item>>

\* Mutant: processItem does not look at processingRef.current.
ProcessItem_NoGuard(processing, map, item) ==
  [returned |-> "started", processing |-> TRUE,
   cache |-> MapSet(map, item, ResultOf(item)),
   timers |-> {[item |-> item, elapsed |-> 0]}]

\* processItem(item), as far as it runs at once: what it returns,
\* processingRef.current and cacheRef.current after it, and the timer it
\* starts.
ProcessItem(processing, map, item) ==
  IF processing
  THEN [returned |-> "busy", processing |-> processing, cache |-> map,
        timers |-> {}]
  ELSE [returned |-> "started", processing |-> TRUE,
        cache |-> MapSet(map, item, ResultOf(item)),
        timers |-> {[item |-> item, elapsed |-> 0]}]

\* DataProcessor after its first render
ProcessorInit ==
  /\ dpData = {}
  /\ cacheRef = <<>>
  /\ processingRef = FALSE
  /\ dpTimers = {}
  /\ dpLastCall = [returned |-> "none", odd |-> FALSE]

\* A click on one of the buttons: processItem(item)
processItem ==
  /\ \E item \in ProcessorItems :
       LET out == ProcessItem(processingRef, cacheRef, item)
       IN /\ processingRef' = out.processing
          /\ cacheRef' = out.cache
          /\ dpTimers' = dpTimers \cup out.timers
          /\ dpLastCall' = [returned |-> out.returned, item |-> item,
                            odd |-> ~dpLastCall.odd]
  /\ UNCHANGED dpData
  /\ KeepExceptProcessor

\* Time passes for the pending timers.
ProcessorTick ==
  /\ \E t \in dpTimers : t.elapsed < ProcessingMs
  /\ dpTimers' =
       {IF t.elapsed < ProcessingMs
        THEN [t EXCEPT !.elapsed = t.elapsed + ProcessorTickMs] ELSE t :
          t \in dpTimers}
  /\ UNCHANGED <<dpData, cacheRef, processingRef, dpLastCall>>
  /\ KeepExceptProcessor

\* The callback of a timer that has run for 500 ms:
\* processingRef.current = false; setData(cacheRef.current.get(item))
ProcessorTimerFires ==
  /\ \E t \in dpTimers :
       /\ t.elapsed >= ProcessingMs
       /\ dpData' = IF t.item \in DOMAIN cacheRef THEN {cacheRef[t.item]} ELSE {}
       /\ dpTimers' = dpTimers \ {t}
  /\ processingRef' = FALSE
  /\ UNCHANGED <<cacheRef, dpLastCall>>
  /\ KeepExceptProcessor

NextProcessor ==
  \/ processItem
  \/ ProcessorTick
  \/ ProcessorTimerFires

(***************************************************************************)
(* 16. Timer                                                               *)
(***************************************************************************)

\* How many intervals are created, and how far count goes, in the model.
MaxIntervals == 3
MaxTimerCount == 4

\* clearInterval(id): null and the ids of cleared intervals clear nothing
ClearInterval(intervals, id) == intervals \ id

\* Timer after its first render
TimerInit ==
  /\ tmCount = 0
  /\ intervalRef = {}
  /\ tmIntervals = {}
  /\ tmCreated = 0
  /\ tmLastClick = [button |-> "none", count |-> 0]

\* const startTimer = () => { intervalRef.current = setInterval(...) }
startTimer ==
  /\ tmCreated < MaxIntervals
  /\ tmCreated' = tmCreated + 1
  /\ tmIntervals' = tmIntervals \cup {tmCreated + 1}
  /\ intervalRef' = {tmCreated + 1}
  /\ tmLastClick' = [button |-> "start", count |-> tmCount]
  /\ UNCHANGED tmCount
  /\ KeepExceptTimer

\* const stopTimer = () => { clearInterval(intervalRef.current); ... = null }
stopTimer ==
  /\ tmIntervals' = ClearInterval(tmIntervals, intervalRef)
  /\ intervalRef' = {}
  /\ tmLastClick' = [button |-> "stop", count |-> tmCount]
  /\ UNCHANGED <<tmCount, tmCreated>>
  /\ KeepExceptTimer

\* A second has passed for an active interval: setCount(c => c + 1), and
\* the render.
TimerIntervalFires ==
  /\ tmIntervals # {}
  /\ tmCount < MaxTimerCount
  /\ tmCount' = tmCount + 1
  /\ UNCHANGED <<intervalRef, tmIntervals, tmCreated, tmLastClick>>
  /\ KeepExceptTimer

NextTimer ==
  \/ startTimer
  \/ stopTimer
  \/ TimerIntervalFires

(***************************************************************************)
(* 17. SearchResults                                                       *)
(***************************************************************************)

\* How many searches are started in the model.
MaxSearches == 4

SearchQueries == {"a", "b"}

\* A variant for comparison: abort() that aborts nothing.
Abort_Nothing(requests, ref) == requests

\* abortControllerRef.current?.abort(): the signal of the controller in the
\* ref, if any, becomes aborted (a settled request stays settled)
Abort(requests, ref) ==
  [id \in DOMAIN requests |->
     IF id \in ref THEN [requests[id] EXCEPT !.aborted = TRUE]
     ELSE requests[id]]

\* search(): abort the controller in the ref, make a new one and fetch
\* with its signal
SearchRequests(requests, ref, query) ==
  LET id == Cardinality(DOMAIN requests) + 1
  IN Abort(requests, ref)
       @@ (id :> [query |-> query, aborted |-> FALSE, status |-> "pending"])

\* the name of the error a pending fetch rejects with
RejectionName(request) ==
  IF request.aborted THEN "AbortError" ELSE "TypeError"

SearchInit ==
  /\ srMounted = FALSE
  /\ srQuery = "a"
  /\ abortControllerRef = {}
  /\ srRequests = <<>>
  /\ srErrors = {}

\* The first render and its effect: search().
SearchMount ==
  /\ ~srMounted
  /\ Cardinality(DOMAIN srRequests) < MaxSearches
  /\ \E query \in SearchQueries :
       /\ srQuery' = query
       /\ srRequests' = SearchRequests(srRequests, abortControllerRef, query)
  /\ abortControllerRef' = {Cardinality(DOMAIN srRequests) + 1}
  /\ srMounted' = TRUE
  /\ UNCHANGED srErrors
  /\ KeepExceptSearch

\* A later render with the prop query: search keeps its identity while
\* query does; when it changes, the cleanup of the effect runs and then the
\* effect, with the new search.
SearchRender ==
  /\ srMounted
  /\ \E query \in SearchQueries :
       IF query = srQuery
       THEN UNCHANGED searchVars
       ELSE /\ Cardinality(DOMAIN srRequests) < MaxSearches
            /\ srQuery' = query
            /\ srRequests' =
                 SearchRequests(Abort(srRequests, abortControllerRef),
                                abortControllerRef, query)
            /\ abortControllerRef' = {Cardinality(DOMAIN srRequests) + 1}
            /\ UNCHANGED <<srMounted, srErrors>>
  /\ KeepExceptSearch

\* The fetch of a request settles, and the rest of search() runs: the
\* results are handled, or the catch block reports what is not an
\* AbortError.  A fetch whose signal is aborted rejects with an AbortError.
SearchSettles ==
  /\ \E id \in DOMAIN srRequests :
       /\ srRequests[id].status = "pending"
       /\ \E outcome \in IF srRequests[id].aborted THEN {"rejected"}
                         ELSE {"resolved", "rejected"} :
            /\ srRequests' = [srRequests EXCEPT ![id].status = outcome]
            /\ srErrors' =
                 IF outcome = "rejected"
                    /\ RejectionName(srRequests[id]) # "AbortError"
                 THEN srErrors \cup
                        {[id |-> id, name |-> RejectionName(srRequests[id]),
                          aborted |-> srRequests[id].aborted]}
                 ELSE srErrors
  /\ UNCHANGED <<srMounted, srQuery, abortControllerRef>>
  /\ KeepExceptSearch

\* Unmount: the cleanup of the effect.  The ref and its controller go with
\* the component.
SearchUnmount ==
  /\ srMounted
  /\ srRequests' = Abort(srRequests, abortControllerRef)
  /\ abortControllerRef' = {}
  /\ srMounted' = FALSE
  /\ UNCHANGED <<srQuery, srErrors>>
  /\ KeepExceptSearch

NextSearch ==
  \/ SearchMount
  \/ SearchRender
  \/ SearchSettles
  \/ SearchUnmount

(***************************************************************************)
(* 18. createResource                                                      *)
(***************************************************************************)

\* How many promises the reads make in the model.
MaxResourcePromises == 4

ResourceKeys == {1, 2, 3}
ResourceData == {"Ann", "Bob"}
ResourceErrors == {"HTTP"}

\* A variant for comparison: a cache that never has the key.
ResourceHas_Never(map, key) == FALSE

\* cache.has(key)
ResourceHas(map, key) == key \in DOMAIN map

\* What a read does with an entry of the cache: return cached.data, throw
\* cached.error or throw cached.promise.  Fields that do not apply are ""
\* and 0.
ReadCached(cached) ==
  IF cached.status = "success"
  THEN [kind |-> "return", data |-> cached.data, error |-> "", promise |-> 0]
  ELSE IF cached.status = "error"
  THEN [kind |-> "throw", data |-> "", error |-> cached.error, promise |-> 0]
  ELSE [kind |-> "throw", data |-> "", error |-> "",
        promise |-> cached.promise]

\* const fetchUser = createResource(async ...): an empty cache
ResourceInit ==
  /\ resourceCache = <<>>
  /\ resourcePromises = <<>>
  /\ resourceFetched = [key \in ResourceKeys |-> 0]
  /\ resourceRead = {}

\* fetchUser(key): the function createResource returns.  The fetcher is an
\* async function: its promise settles after the read has thrown.
ResourceRead(key) ==
  LET before == IF key \in DOMAIN resourceCache
                THEN {resourceCache[key]} ELSE {}
      promise == Cardinality(DOMAIN resourcePromises) + 1
  IN
  IF ResourceHas(resourceCache, key)
  THEN /\ resourceRead' =
            {[key |-> key, before |-> before] @@ ReadCached(resourceCache[key])}
       /\ UNCHANGED <<resourceCache, resourcePromises, resourceFetched>>
  ELSE /\ promise <= MaxResourcePromises
       /\ resourceFetched' = [resourceFetched EXCEPT ![key] = @ + 1]
       /\ resourcePromises' =
            resourcePromises @@ (promise :> [key |-> key, state |-> "pending"])
       /\ resourceCache' =
            (key :> [status |-> "pending", promise |-> promise])
              @@ resourceCache
       /\ resourceRead' =
            {[key |-> key, before |-> before, kind |-> "throw", data |-> "",
              error |-> "", promise |-> promise]}

ResourceReads ==
  /\ \E key \in ResourceKeys : ResourceRead(key)
  /\ KeepExceptResource

\* fetcher(key) fulfils: .then(data => { cache.set(key, success) })
ResourceFulfils ==
  /\ \E promise \in DOMAIN resourcePromises, data \in ResourceData :
       /\ resourcePromises[promise].state = "pending"
       /\ resourcePromises' =
            [resourcePromises EXCEPT ![promise].state = "fulfilled"]
       /\ resourceCache' =
            (resourcePromises[promise].key :>
               [status |-> "success", data |-> data]) @@ resourceCache
  /\ UNCHANGED <<resourceFetched, resourceRead>>
  /\ KeepExceptResource

\* fetcher(key) rejects: .catch(error => { cache.set(key, error); throw })
ResourceRejects ==
  /\ \E promise \in DOMAIN resourcePromises, error \in ResourceErrors :
       /\ resourcePromises[promise].state = "pending"
       /\ resourcePromises' =
            [resourcePromises EXCEPT ![promise].state = "rejected"]
       /\ resourceCache' =
            (resourcePromises[promise].key :>
               [status |-> "error", error |-> error]) @@ resourceCache
  /\ UNCHANGED <<resourceFetched, resourceRead>>
  /\ KeepExceptResource

NextResource ==
  \/ ResourceReads
  \/ ResourceFulfils
  \/ ResourceRejects

(***************************************************************************)
(* Initial state and specifications                                        *)
(***************************************************************************)

Init ==
  /\ RateInit
  /\ AuthInit
  /\ RefreshInit
  /\ RouteInit
  /\ CounterInit
  /\ LsInit
  /\ CacheInit
  /\ DebounceInit
  /\ RenderInit
  /\ SiteInit
  /\ FormInit
  /\ PreviousInit
  /\ ProcessorInit
  /\ TimerInit
  /\ SearchInit
  /\ ResourceInit

SpecRate == Init /\ [][NextRate]_vars
SpecAuth == Init /\ [][NextAuth]_vars
SpecRefresh == Init /\ [][NextRefresh]_vars
SpecRoute == Init /\ [][NextRoute]_vars
SpecCounter == Init /\ [][NextCounter]_vars
SpecLs == Init /\ [][NextLs]_vars
SpecCache == Init /\ [][NextCache]_vars
SpecDebounce == Init /\ [][NextDebounce]_vars
SpecDebounceFair ==
  SpecDebounce /\ WF_vars(DebounceTick) /\ WF_vars(DebounceTimerFires)
SpecRender == Init /\ [][NextRender]_vars
SpecSite == Init /\ [][NextSite]_vars
SpecForm == Init /\ [][NextForm]_vars
SpecPrevious == Init /\ [][NextPrevious]_vars
SpecProcessor == Init /\ [][NextProcessor]_vars
SpecProcessorFair ==
  SpecProcessor /\ WF_vars(ProcessorTick) /\ WF_vars(ProcessorTimerFires)
SpecTimer == Init /\ [][NextTimer]_vars
SpecSearch == Init /\ [][NextSearch]_vars
SpecResource == Init /\ [][NextResource]_vars

\* C1: for every client key, the requests admitted in any interval of
\* windowMs milliseconds (here: the interval of that length ending now) number
\* at most limit.
C1_AtMostLimitPerWindow ==
  \A k \in RateKeys : BagCardinality(admitLog[k]) <= limit

\* C2: a request that config.matcher matches and that carries no 'token'
\* cookie never gets NextResponse.next() from proxy and never reaches the
\* route handler.
C2_NoTokenNeverReachesHandler ==
  (AuthMatcher(authRequest.pathname) /\ "token" \notin DOMAIN authRequest.cookies)
    => (authProxyResult # "next" /\ authStage # "handler")


\* How verification of the handled request's tokens ends.
RfAccess ==
  JwtVerify(SecondField(rfRequest.authorization), "access-secret", rfTime)
RfRefresh ==
  JwtVerify(CookieValue(rfRequest.cookies, "refreshToken"), "refresh-secret", rfTime)
RfAccessExpired == ~RfAccess.ok /\ RfAccess.name = "TokenExpiredError"

\* C3: a request that carries an expired access token is answered 401; no
\* new access token is issued in answer to it and it is not served (it is
\* served only when sent again with the new token).
C3_ExpiredAnswered401 ==
  (rfStage = "done" /\ RfAccessExpired)
    => /\ rfRes.sent /\ rfRes.statusCode = 401
       /\ rfRes.newAccessToken = {}
       /\ ~rfNextCalled

C5_ReloginRequired ==
  (rfStage = "done" /\ RfAccessExpired /\ ~RfRefresh.ok)
    => /\ rfRes.sent /\ rfRes.statusCode = 401 /\ rfRes.error = "relogin"
       /\ ~rfNextCalled
       /\ rfUserId = {}
       /\ rfRes.newAccessToken = {}

C5_Witness ==
  /\ rfStage = "done" /\ RfAccessExpired /\ ~RfRefresh.ok
  /\ "refreshToken" \in DOMAIN rfRequest.cookies
  /\ RfRefresh.name = "TokenExpiredError"
  /\ rfRes.statusCode = 401

\* C6: the access token fails verification with another error than
\* TokenExpiredError (a missing Authorization header included): 401 with the
\* error 'Token 无效', the refresh token cookie is not read, and no new access
\* token is issued, whatever the refresh token.
C6_InvalidTokenRejected ==
  (rfStage = "done" /\ ~RfAccess.ok /\ RfAccess.name # "TokenExpiredError")
    => /\ rfRes.sent /\ rfRes.statusCode = 401 /\ rfRes.error = "invalid"
       /\ ~rfCookieRead
       /\ rfRes.newAccessToken = {}
       /\ ~rfNextCalled

C6_Witness ==
  /\ rfStage = "done"
  /\ rfRequest.authorization = {}
  /\ RfRefresh.ok
  /\ rfRes.statusCode = 401 /\ rfRes.error = "invalid"


\* The request in flight has a sessionId cookie that resolves to a stored
\* session, and the token of its Authorization header (the header's second
\* space-separated field) verifies.
RouteAuthenticated ==
  /\ "sessionId" \in DOMAIN routeRequest.cookies
  /\ routeRequest.cookies.sessionId \in DOMAIN sessions
  /\ JwtVerify(SecondField(routeRequest.authorization), JwtSecret, routeTime).ok

C8_BatchedUpdates ==
  countQueue = <<>>
    => /\ counterEvent = "handleClick" => count = countAtEvent + 1
       /\ counterEvent = "handleClickCorrect" => count = countAtEvent + 3

C8_Witness ==
  /\ countQueue = <<>>
  /\ counterEvent = "handleClickCorrect"
  /\ countAtEvent = 2
  /\ count = 5


\* The mounted hook's arguments, the entry under its key, and the phases the
\* claim speaks of: the first render, and a render after setValue(v) with a
\* value v.
LsKey == (CHOOSE h \in lsHook : TRUE).key
LsInitialValue == (CHOOSE h \in lsHook : TRUE).initialValue
LsEntry == GetItem(localStorage, LsKey)
LsEntryAtMount == CHOOSE x \in lsHistory.entryAtMount : TRUE
LsFirstRender == lsHook # {} /\ lsHistory.lastArg = {}
LsAfterSetValue ==
  /\ lsHook # {}
  /\ lsQueue = <<>>
  /\ lsHistory.lastArg # {}
  /\ \A arg \in lsHistory.lastArg : ~arg.isFunction

\* C9 as stated: without an entry the hook first returns the initial value;
\* with an entry it first returns the entry's parsed value; after setValue(v)
\* it returns v and localStorage[key] holds JSON.stringify(v).
C9_AsStated ==
  /\ (LsFirstRender /\ lsHistory.entryAtMount = {})
       => storedValue = LsInitialValue
  /\ (LsFirstRender /\ lsHistory.entryAtMount # {})
       => /\ JsonParse(LsEntryAtMount).ok
          /\ storedValue = JsonParse(LsEntryAtMount).value
  /\ LsAfterSetValue
       => /\ {storedValue} = lsHistory.lastValue
          /\ LsEntry = {JsonStringify(storedValue)}

\* C9, amended: the hook first returns the entry's parsed value when there
\* is an entry that is not empty and parses as JSON, and the initial value
\* otherwise; after setValue(v) it returns v, and localStorage[key] holds
\* JSON.stringify(v) when setItem did not throw and is as before the call
\* when it did.
C9_FallbackToInitial ==
  /\ LsFirstRender
       => storedValue =
            IF \/ lsHistory.entryAtMount = {}
               \/ lsHistory.entryAtMount = {<<>>}
               \/ ~JsonParse(LsEntryAtMount).ok
            THEN LsInitialValue
            ELSE JsonParse(LsEntryAtMount).value
  /\ LsAfterSetValue
       => /\ lsHistory.lastArg = {PlainArg(storedValue)}
          /\ IF lsHistory.lastWrite = "stored"
             THEN LsEntry = {JsonStringify(storedValue)}
             ELSE LsEntry = lsHistory.entryBeforeWrite

\* The hook was mounted over an entry it had written itself (the text of a
\* string with a quote in it) and returned that string, not the initial
\* value; then setValue('dark') was applied and stored.
C9_Witness ==
  /\ LsAfterSetValue
  /\ lsHistory.entryAtMount = {<<Quote, "a", Backslash, Quote, Quote>>}
  /\ lsHistory.firstValue = {JsString(<<"a", Quote>>)}
  /\ LsInitialValue = JsString(Light)
  /\ storedValue = JsString(Dark)
  /\ lsHistory.lastWrite = "stored"
  /\ LsEntry = {<<Quote, "d", "a", "r", "k", Quote>>}


\* The promises the fetchers have returned for a key: one per call of a
\* fetcher for it.
FetchesFor(key) == {p \in DOMAIN promises : promises[p].key = key}

\* C10: for no key is a fetcher called more than once, and every
\* getCachedData call returns the promise the first call for its key stored
\* and returned, whether it is still pending or has settled.
C10_OneFetchPerKey ==
  /\ \A key \in CacheKeys : Cardinality(FetchesFor(key)) <= 1
  /\ \A r \in cacheReturned :
       /\ r.promise = firstReturned[r.key]
       /\ r.promise = cache[r.key]
       /\ FetchesFor(r.key) = {r.promise}

\* Three calls for one key, the third with another fetcher and after the
\* promise was rejected: one promise, made by the first call's fetcher.
C10_Witness ==
  /\ cacheCalls = 3
  /\ DOMAIN cache = {"user-1"}
  /\ Len(promises) = 1
  /\ promises[1] = [fetcher |-> "fetchUser", key |-> "user-1", status |-> "rejected"]
  /\ cacheReturned = {[key |-> "user-1", promise |-> 1]}


\* The timer that set debouncedValue last had run for its delay.
DebounceRanForDelay ==
  dbSetBy.by = "timer" => dbSetBy.timer.elapsed >= dbSetBy.timer.delay

\* The timer that set debouncedValue last was started by the last effect
\* of a mounted component, so value and delay had not changed while it ran,
\* and it set the value the hook had when it fired.
DebounceSetByCurrentTimer ==
  dbSetBy.by = "timer"
    => /\ dbSetBy.timer.current
       /\ dbSetBy.mounted
       /\ debouncedValue = dbSetBy.timer.value
       /\ dbSetBy.timer.value = dbSetBy.value
       /\ dbSetBy.timer.delay = dbSetBy.delay

\* C11 as stated: the timer that sets debouncedValue was started when value
\* became v (at the mount or by a render with another value), and once
\* value stops changing debouncedValue eventually equals value.
C11_AsStated ==
  /\ [](/\ DebounceRanForDelay
        /\ DebounceSetByCurrentTimer
        /\ dbSetBy.by = "timer" => dbSetBy.timer.startedBy \in {"mount", "value"}
        /\ Cardinality(dbTimers) <= 1)
  /\ \A v \in DebounceValues :
       (dbMounted /\ dbValue = v)
         ~> (debouncedValue = v \/ dbValue # v \/ ~dbMounted)

\* C11: debouncedValue is set only by the timer of the last effect, started
\* when value or delay last changed and run for delay; at most one timer is
\* pending; and once value and delay stop changing, debouncedValue
\* eventually equals value (while the component stays mounted).
C11_DebouncedFollowsValue ==
  /\ [](/\ DebounceRanForDelay
        /\ DebounceSetByCurrentTimer
        /\ Cardinality(dbTimers) <= 1)
  /\ \A v \in DebounceValues, d \in DebounceDelays :
       (dbMounted /\ dbValue = v /\ dbDelay = d)
         ~> (debouncedValue = v \/ dbValue # v \/ dbDelay # d \/ ~dbMounted)

\* The value changed twice and then the delay; the timer started by the
\* change of delay ran for 500 ms and set debouncedValue.
C11_Witness ==
  /\ dbMounted
  /\ dbSetBy.by = "timer"
  /\ dbSetBy.timer.startedBy = "delay"
  /\ dbSetBy.timer.delay = 500
  /\ dbValue = "re"
  /\ debouncedValue = "re"
  /\ dbTimers = {}


\* C12: the number each component shows as its render count is the number
\* of times it has rendered.
C12_ShownIsRenderCount ==
  /\ rcMounted => rcShown = rcRenders
  /\ pdMounted => pdShown = pdRenders


\* C13: every link of the navigation bar and of the sidebars is the route
\* of a page, so a visitor who follows one never gets the not-found page.
C13_NoDeadLink ==
  /\ siteFollowed.from \in {"nav", "sidebar"} => sitePage = "page"
  /\ sitePage # "none"
       => /\ \A link \in NavLinks : link \in SiteRoutes
          /\ \A key \in DOMAIN sidebar :
               \A link \in SidebarLinks(key) : link \in SiteRoutes

\* The sections that list a link
SectionsWith(link) == {key \in DOMAIN sidebar : link \in SidebarLinks(key)}

\* C14: every sidebar link has its sidebar's key as path prefix, every nav
\* link but '/' is a sidebar key, and the page a followed link leads to
\* shows the sidebar of the section that lists the link.
C14_LinkLandsInItsSection ==
  /\ \A key \in DOMAIN sidebar :
       \A link \in SidebarLinks(key) : HasPathPrefix(link, key)
  /\ \A link \in NavLinks : link # <<"">> => link \in DOMAIN sidebar
  /\ (siteFollowed.from \in {"nav", "sidebar"} /\ siteFollowed.link # <<"">>)
       => /\ siteSidebar # {}
          /\ siteSidebar \subseteq SectionsWith(siteFollowed.link)


\* f applied n times to a value
RECURSIVE CallLsFunctionTimes(_, _, _)
CallLsFunctionTimes(fn, n, value) ==
  IF n = 0 THEN value
  ELSE CallLsFunction(fn, CallLsFunctionTimes(fn, n - 1, value))

\* C15: when React renders after an event whose n setValue calls all passed
\* the function f, the state is f applied n times to the state before the
\* event, and localStorage[key] holds its JSON text.
C15_FunctionCallsCompose ==
  [][(lsQueue # <<>> /\ lsQueue' = <<>> /\ lsHistory.functionCalls = Len(lsQueue))
       => /\ storedValue' =
               CallLsFunctionTimes("toggleTheme", Len(lsQueue), storedValue)
          /\ GetItem(localStorage', LsKey) = {StoredText(storedValue')}]_vars


\* C16: after {type: 'reset'} the state is the one Form was initialised
\* with, whatever setField actions came before; after an action of unknown
\* type the state is what it was.
C16_ResetRestoresInitial ==
  /\ formLast.action.type = "reset"
       => (~formThrown /\ form = FormInitialArg)
  /\ formLast.action.type = "submit"
       => (~formThrown /\ form = formLast.before)



\* C17: the first render gets undefined from usePrevious, every later one
\* the value the render before it passed, changed or not.
C17_ReturnsPrecedingValue ==
  /\ upRenders = 1 => upReturned = {}
  /\ upRenders > 1 => upReturned = upDeps

\* A render with 1, one more with 1, then one with 2, which gets 1.
C17_Witness ==
  /\ upRenders = 4
  /\ upValue = 2
  /\ upDeps = {1}
  /\ upReturned = {1}
  /\ upPhase = "idle"


\* At most one item is being processed, and processingRef.current tells
\* whether one is.
ProcessorOneAtATime ==
  /\ Cardinality(dpTimers) <= 1
  /\ processingRef <=> dpTimers # {}

\* A step that is a processItem call
ProcessorCalled == dpLastCall' # dpLastCall

\* C18: at most one item is in processing at any time; a call made
\* meanwhile returns the busy message and changes neither cacheRef nor data;
\* an accepted call leads to the flag cleared and data set to the result of
\* its item.
C18_OneItemInProcessing ==
  /\ []ProcessorOneAtATime
  /\ [][ProcessorCalled
         => /\ dpLastCall'.returned = "busy" <=> processingRef
            /\ processingRef => (cacheRef' = cacheRef /\ dpData' = dpData)]_vars
  /\ \A item \in ProcessorItems :
       (\E t \in dpTimers : t.item = item)
         ~> (~processingRef /\ dpData = {ResultOf(item)})

\* A is accepted, B is refused while A is processed, and then B is accepted
\* while data still shows the result of A.
C18_Witness ==
  /\ dpData = {ResultOf("A")}
  /\ processingRef
  /\ \E t \in dpTimers : t.item = "B" /\ t.elapsed > 0 /\ t.elapsed < ProcessingMs
  /\ dpLastCall.returned = "started"
  /\ dpLastCall.item = "B"
  /\ DOMAIN cacheRef = {"A", "B"}


\* C19: at most one interval is active at any time, and after stopTimer
\* none is, so count stays what it was when stopTimer was clicked.
C19_StopStopsEveryInterval ==
  /\ Cardinality(tmIntervals) <= 1
  /\ tmLastClick.button = "stop"
       => (tmIntervals = {} /\ tmCount = tmLastClick.count)


\* C20: at most one search request is not aborted at any time, after the
\* cleanup of the effect at unmount none is, and no error of a request
\* that was aborted is reported by console.error.
C20_OneLiveRequest ==
  /\ Cardinality({id \in DOMAIN srRequests : ~srRequests[id].aborted}) <= 1
  /\ ~srMounted => \A id \in DOMAIN srRequests : srRequests[id].aborted
  /\ \A e \in srErrors : ~e.aborted /\ e.name # "AbortError"

\* Three searches: the first was aborted in flight and has failed without
\* a report, the second failed on its own and was reported, the third is
\* in flight.
C20_Witness ==
  /\ srMounted
  /\ \E i, j, k \in DOMAIN srRequests :
       /\ srRequests[i].aborted /\ srRequests[i].status = "rejected"
       /\ \A e \in srErrors : e.id # i
       /\ \E e \in srErrors : e.id = j
       /\ ~srRequests[k].aborted /\ srRequests[k].status = "pending"


\* the fetcher was invoked at most once for each key
ResourceFetchedOnce == \A key \in ResourceKeys : resourceFetched[key] <= 1

\* the last read returned the data exactly when the status was success,
\* threw the stored error when it was error, and otherwise threw the
\* pending promise of its key, the one the cache holds
ResourceReadAsStatus ==
  \A r \in resourceRead :
    LET status == IF r.before = {} THEN "none"
                  ELSE (CHOOSE e \in r.before : TRUE).status
        entry == CHOOSE e \in r.before : TRUE
    IN /\ (r.kind = "return") <=> (status = "success")
       /\ status = "success" => r.data = entry.data
       /\ status = "error" =>
            r.kind = "throw" /\ r.error = entry.error /\ r.promise = 0
       /\ status \in {"pending", "none"} =>
            /\ r.kind = "throw" /\ r.promise \in DOMAIN resourcePromises
            /\ resourcePromises[r.promise].key = r.key
            /\ \A p \in DOMAIN resourcePromises :
                 resourcePromises[p].key = r.key => p = r.promise
       /\ status = "pending" => r.promise = entry.promise

\* an entry starts as pending, moves only from pending to success or to
\* error, and is never removed
ResourceStatusStep ==
  /\ \A key \in DOMAIN resourceCache :
       /\ key \in DOMAIN resourceCache'
       /\ \/ resourceCache'[key] = resourceCache[key]
          \/ /\ resourceCache[key].status = "pending"
             /\ resourceCache'[key].status \in {"success", "error"}
  /\ \A key \in DOMAIN resourceCache' \ DOMAIN resourceCache :
       resourceCache'[key].status = "pending"

\* C21: for each key the fetcher is invoked at most once, the status of an
\* entry moves only from pending to success or from pending to error and
\* never changes afterwards, and a read returns the data exactly when the
\* status is success, throws the stored error when it is error and throws
\* the same pending promise otherwise.
C21_ResourceCache ==
  /\ [](ResourceFetchedOnce /\ ResourceReadAsStatus)
  /\ [][ResourceStatusStep]_vars

\* One key read while absent, while pending and after success, another
\* read after its fetch failed: the last read returned the data.
C21_Witness ==
  /\ \E r \in resourceRead :
       /\ r.kind = "return"
       /\ resourceFetched[r.key] = 1
  /\ \E key \in DOMAIN resourceCache : resourceCache[key].status = "error"
  /\ \E key \in DOMAIN resourceCache : resourceCache[key].status = "pending"

====
